---- MODULE Spec2Model ----
(***************************************************************************)
(* Article structure extraction and block conversion engine of             *)
(* scripts/register-images.js (parseTwigFile ... parseInlineHtml).         *)
(*                                                                         *)
(* Source texts are TLA+ strings; positions are 0-based as in JavaScript.  *)
(* Every regular expression of the source is an operator that computes the *)
(* leftmost match the way the backtracking matcher does.                   *)
(***************************************************************************)
EXTENDS Integers, Sequences, FiniteSets, TLC

VARIABLES
    template,    \* what the template file was written from (the test input)
    twigContent, \* parseTwigFile: the text read from the template file
    pc,          \* position of the driver: "start", "parsed", "built", "threw",
                 \* "posted"
    strategy,    \* which extraction function parseTwigFile called
    article,     \* the ParsedArticle parseTwigFile returned (only the fields set)
    richText,    \* the blocks buildRichTextContent returned
    scanKind,    \* scan: "match" (a delimiter scan), "find" (findContentSectionsEnd)
                 \* or "split" (splitTopLevelObjects)
    scanText,    \* scan: the text scanned
    scanOpen,    \* scan: opening delimiter
    scanClose,   \* scan: closing delimiter
    scanStart,   \* scan: index of the opening delimiter
    scanState,   \* scan: the local variables of the running loop
    scanSteps,   \* scan: loop iterations executed
    scanPc,      \* scan: the loop running, "strings", "seek", "loop", "split"; or "done"
    scanResult,  \* scan: the value the scan ended with
    xText,       \* extractStringValue: text argument
    xKey,        \* extractStringValue: key argument
    xCase,       \* extractStringValue: what the text argument was written from
    xOut,        \* extractStringValue: returned value
    xPc,         \* extractStringValue: "call" or "returned"
    csText,      \* parseContentSections: hashContent argument
    csCase,      \* parseContentSections: what the argument was written from
    csOut,       \* parseContentSections: the sections returned
    csPc,        \* parseContentSections: "call" or "returned"
    inText,      \* parseInlineHtml: text argument
    inCase,      \* parseInlineHtml: what the argument was written from
    inOut,       \* parseInlineHtml: the text nodes returned
    inPc,        \* parseInlineHtml: "call" or "returned"
    session,     \* main (migrate): what the articles before this one came to
    posts,       \* content store: the reviewStatus of each blog post, or "missing"
    requests,    \* review workflow: the requests received and how far each one is
    runScript,   \* script run: which script runs
    runEnv,      \* script run: the command-line flags and what the store holds
    runPc,       \* script run: "start", the loop running, "done" or "exit"
    runDone,     \* script run: iterations of the running loop so far
    runSent,     \* script run: how many requests of each kind were sent
    runStats,    \* script run: the counters of the summary
    runMap,      \* script run: the images known to be in the media library
    retryFile,   \* uploadWithRetry: the file to upload
    retryPc,     \* uploadWithRetry: "upload", "sleep", "returned" or "threw"
    retryAttempt,\* uploadWithRetry: the loop variable attempt
    retryLog,    \* uploadWithRetry: the status of each upload made so far
    retryWaits,  \* uploadWithRetry: the waits made so far, in milliseconds
    retryResult, \* uploadWithRetry: the value returned
    hookEnv,     \* lifecycles: SYMFONY_BASE_URL and WEBHOOK_SECRET of the process
    hookPosts,   \* lifecycles: the blog posts of the store
    hookOps,     \* lifecycles: the writes received and how far each one is
    hookSent,    \* lifecycles: the webhook requests sent so far
    impCase,     \* direct import: the image directory and the files table before
                 \* the first run
    impTable,    \* direct import: the rows of the files table
    impUploads,  \* direct import: the files of public/uploads
    impExisting, \* direct import: existingByHash of the running process
    impQueue,    \* direct import: the images of allImages still to come
    impPc,       \* direct import: "start", "loop" or "done"
    impRun,      \* direct import: which run of the script this is
    impCounts,   \* direct import: inserted and skipped of the running process
    impLog       \* direct import: inserted of each run that is over

engineVars == <<template, twigContent, pc, strategy, article, richText>>
scanVars ==
    <<scanKind, scanText, scanOpen, scanClose, scanStart, scanState, scanSteps, scanPc,
      scanResult>>
xVars == <<xText, xKey, xCase, xOut, xPc>>
csVars == <<csText, csCase, csOut, csPc>>
inVars == <<inText, inCase, inOut, inPc>>
sessVars == <<session>>
wfVars == <<posts, requests>>
runVars == <<runScript, runEnv, runPc, runDone, runSent, runStats, runMap>>
retryVars == <<retryFile, retryPc, retryAttempt, retryLog, retryWaits, retryResult>>
hookVars == <<hookEnv, hookPosts, hookOps, hookSent>>
impVars ==
    <<impCase, impTable, impUploads, impExisting, impQueue, impPc, impRun, impCounts,
      impLog>>
toolVars == <<retryVars, hookVars, impVars>>
vars ==
    <<engineVars, scanVars, xVars, csVars, inVars, sessVars, wfVars, runVars, toolVars>>

\* the variables of the other parts, for each part of the model
parserVars == <<scanVars, xVars, csVars, inVars>>
serverVars == <<wfVars>>
restVars == <<sessVars, serverVars, runVars, toolVars>>
notEngine == <<parserVars, restVars>>
notScan == <<engineVars, xVars, csVars, inVars, restVars>>
notExtract == <<engineVars, scanVars, csVars, inVars, restVars>>
notSections == <<engineVars, scanVars, xVars, inVars, restVars>>
notInline == <<engineVars, scanVars, xVars, csVars, restVars>>
notWorkflow == <<engineVars, parserVars, sessVars, runVars, toolVars>>
notRun == <<parserVars, serverVars, toolVars>>
notRetry == <<engineVars, parserVars, sessVars, serverVars, runVars, hookVars, impVars>>
notHooks == <<engineVars, parserVars, sessVars, serverVars, runVars, retryVars, impVars>>
notImport == <<engineVars, parserVars, sessVars, serverVars, runVars, retryVars, hookVars>>

(***************************************************************************)
(* JavaScript string primitives                                            *)
(***************************************************************************)

\* `const name = value; rest`: rest with name bound to value
With(value, rest(_)) == rest(value)

\* the characters \s matches among those the model's texts are written in
WS == {" ", "\t", "\n", "\r"}

\* the line terminators '.' does not match without the s flag
LineTerminator == {"\n", "\r"}

\* least i in a..b with P(i), or -1
FirstIn(a, b, P(_)) ==
    IF \E i \in a..b : P(i)
    THEN CHOOSE i \in a..b : P(i) /\ \A j \in a..(i - 1) : ~P(j)
    ELSE -1

\* greatest i in a..b with P(i), or -1
LastIn(a, b, P(_)) ==
    IF \E i \in a..b : P(i)
    THEN CHOOSE i \in a..b : P(i) /\ \A j \in (i + 1)..b : ~P(j)
    ELSE -1

Clamp(s, i) == IF i < 0 THEN 0 ELSE IF i > Len(s) THEN Len(s) ELSE i

\* s[i]; "" stands for undefined (it equals no character)
charAt(s, i) == IF i >= 0 /\ i < Len(s) THEN SubSeq(s, i + 1, i + 1) ELSE ""

\* s.substring(a, b): arguments clamped to 0..length and swapped when a > b
substring(s, a, b) ==
    With(Clamp(s, a), LAMBDA x :
    With(Clamp(s, b), LAMBDA y :
        IF x <= y THEN SubSeq(s, x + 1, y) ELSE SubSeq(s, y + 1, x)))

\* the literal lit occurs in s at index i
startsAt(s, i, lit) ==
    /\ i >= 0
    /\ i + Len(lit) <= Len(s)
    /\ SubSeq(s, i + 1, i + Len(lit)) = lit

\* s.indexOf(lit, from)
indexOf(s, lit, from) ==
    FirstIn(Clamp(s, from), Len(s) - Len(lit), LAMBDA i : startsAt(s, i, lit))

\* s.includes(lit)
includes(s, lit) == indexOf(s, lit, 0) # -1

\* the index after a greedy \s* that starts at i
skipWs(s, i) == FirstIn(i, Len(s), LAMBDA j : charAt(s, j) \notin WS)

\* s.trim()
trim(s) ==
    With(skipWs(s, 0), LAMBDA a :
    With(LastIn(0, Len(s) - 1, LAMBDA j : charAt(s, j) \notin WS), LAMBDA b :
        IF b = -1 THEN "" ELSE substring(s, a, b + 1)))

\* s.replace(/lit/g, rep) for a literal pattern, applied from index from on
RECURSIVE replaceLit(_, _, _, _)
replaceLit(s, lit, rep, from) ==
    With(indexOf(s, lit, from), LAMBDA i :
        IF i = -1
        THEN substring(s, from, Len(s))
        ELSE substring(s, from, i) \o rep \o replaceLit(s, lit, rep, i + Len(lit)))

\* .replace(/\\'/g, "'")
unescapeQuotes(s) == replaceLit(s, "\\'", "'", 0)

\* a value whose escaped newline markers are left as written
keepNewlineMarkers(s) == s

\* .replace(/\\n/g, '\n')
unescapeNewlines(s) == replaceLit(s, "\\n", "\n", 0)

\* the result of a failed String.prototype.match / RegExp.prototype.exec
NoMatch == [found |-> FALSE]

\* the value that stands for an uncaught TypeError (reading a group of null)
TypeError == "!TypeError"

\* /'((?:[^'\\]|\\.)*)'/ from the index after the opening quote: the index
\* of the closing quote, or -1; dotAll is the s flag.  The characters that
\* are neither a quote nor a backslash are consumed one by one by [^'\\];
\* the operator passes over a run of them at once.
RECURSIVE strEnd(_, _, _)
strEnd(s, i, dotAll) ==
    With(FirstIn(i, Len(s) - 1, LAMBDA k : charAt(s, k) \in {"'", "\\"}), LAMBDA j :
        IF j = -1 THEN -1
        ELSE IF charAt(s, j) = "'" THEN j
        ELSE IF j + 1 < Len(s) /\ (dotAll \/ charAt(s, j + 1) \notin LineTerminator)
             THEN strEnd(s, j + 2, dotAll)
             ELSE -1)

\* /'([^']*)'/ anchored at i: [start, end) of the group and the index after
\* the closing quote
plainStrAt(s, i) ==
    With(indexOf(s, "'", i + 1), LAMBDA e :
        IF charAt(s, i) = "'" /\ e # -1
        THEN [found |-> TRUE, gs |-> i + 1, ge |-> e, end |-> e + 1]
        ELSE NoMatch)

(***************************************************************************)
(* String/value extractor                                                  *)
(***************************************************************************)

\* match[k] of a match object; reading a group of null throws
Group(text, m) == IF m.found THEN substring(text, m.gs, m.ge) ELSE TypeError

\* the RegExp "'" + key + "'\s*:\s*'((?:[^'\\]|\\.)*)'" (flag s) anchored at i
keyedStrAt(text, key, i) ==
    With("'" \o key \o "'", LAMBDA k :
    With(skipWs(text, i + Len(k)), LAMBDA c :
    With(skipWs(text, c + 1), LAMBDA q :
    With(strEnd(text, q + 1, TRUE), LAMBDA e :
        IF /\ startsAt(text, i, k)
           /\ charAt(text, c) = ":"
           /\ charAt(text, q) = "'"
           /\ e # -1
        THEN [found |-> TRUE, gs |-> q + 1, ge |-> e, end |-> e + 1]
        ELSE NoMatch))))

\* text.match(regex) for that RegExp: the leftmost match
keyedStrMatch(text, key) ==
    With(FirstIn(0, Len(text) - 1, LAMBDA j : keyedStrAt(text, key, j).found), LAMBDA i :
        IF i = -1 THEN NoMatch ELSE keyedStrAt(text, key, i))

\* extractStringValue without its `if (match)` guard
extractStringValueUnguarded(text, key) ==
    With(keyedStrMatch(text, key), LAMBDA match :
    With(Group(text, match), LAMBDA g :
        IF g = TypeError THEN TypeError ELSE unescapeNewlines(unescapeQuotes(g))))

extractStringValue(text, key) ==
    With(keyedStrMatch(text, key), LAMBDA match :
        IF match.found
        THEN unescapeNewlines(unescapeQuotes(Group(text, match)))
        ELSE "")

(***************************************************************************)
(* Delimiter scans                                                         *)
(***************************************************************************)

\* the loop condition `pos < text.length && depth > 0`
scanGuard(text, st) == st.pos < Len(text) /\ st.depth > 0

\* an iteration that stays on a quote character instead of passing it
scanStepStuck(text, open, close, st) ==
    [st EXCEPT !.pos = IF charAt(text, st.pos) = "'" THEN st.pos ELSE st.pos + 1]

\* one iteration: count the delimiter at pos, then pos++
scanStep(text, open, close, st) ==
    [st EXCEPT !.pos   = st.pos + 1,
               !.depth = IF charAt(text, st.pos) = open THEN st.depth + 1
                         ELSE IF charAt(text, st.pos) = close THEN st.depth - 1
                         ELSE st.depth]

\* the iterations over characters that are no delimiter: each leaves depth
\* alone and adds one to pos, so they end at the next delimiter or at the end
scanSkip(text, open, close, st) ==
    With(FirstIn(st.pos, Len(text) - 1, LAMBDA k : charAt(text, k) \in {open, close}), LAMBDA j :
        [st EXCEPT !.pos = IF j = -1 THEN Len(text) ELSE j])

\* the whole loop: the state in which its condition fails
RECURSIVE scanLoop(_, _, _, _)
scanLoop(text, open, close, st) ==
    IF scanGuard(text, st)
    THEN With(scanSkip(text, open, close, st), LAMBDA at :
             IF scanGuard(text, at)
             THEN scanLoop(text, open, close, scanStep(text, open, close, at))
             ELSE at)
    ELSE st

\* depth = 1; pos = start + 1; while (...) {...}: the value of pos after the loop
matchDelimiter(text, open, close, start) ==
    scanLoop(text, open, close, [pos |-> start + 1, depth |-> 1]).pos

\* the loop condition `i < text.length && stringCount < 4`
stringsGuard(text, st) == st.pos < Len(text) /\ st.stringCount < 4

\* one iteration of the loop that skips the first four quoted strings
stringsStep(text, st) ==
    With(/\ charAt(text, st.pos) = "'"
         /\ (st.pos = 0 \/ charAt(text, st.pos - 1) # "\\"), LAMBDA quote :
        [st EXCEPT !.pos = st.pos + 1,
                   !.inString = IF quote THEN ~st.inString ELSE st.inString,
                   !.stringCount = IF quote /\ st.inString THEN st.stringCount + 1
                                   ELSE st.stringCount])

\* the loop that skips the first four quoted strings: the value of i after
\* it (the iterations over characters other than a quote only add one to i)
RECURSIVE skipStrings(_, _, _, _)
skipStrings(text, i, inString, stringCount) ==
    With(indexOf(text, "'", i), LAMBDA j :
        IF i < Len(text) /\ stringCount < 4
        THEN IF j = -1 THEN Len(text)
             ELSE IF j = 0 \/ charAt(text, j - 1) # "\\"
                  THEN skipStrings(text, j + 1, ~inString,
                                   IF inString THEN stringCount + 1 ELSE stringCount)
                  ELSE skipStrings(text, j + 1, inString, stringCount)
        ELSE i)

\* one iteration of the for loop of splitTopLevelObjects, with its i++
splitStep(str, st) ==
    With(charAt(str, st.pos), LAMBDA c :
    With(c = "}" /\ st.depth - 1 = 0 /\ st.start # -1, LAMBDA closes :
        [pos     |-> st.pos + 1,
         depth   |-> IF c = "{" THEN st.depth + 1
                     ELSE IF c = "}" THEN st.depth - 1 ELSE st.depth,
         start   |-> IF c = "{" /\ st.depth = 0 THEN st.pos
                     ELSE IF closes THEN -1 ELSE st.start,
         objects |-> IF closes
                     THEN Append(st.objects, substring(str, st.start, st.pos + 1))
                     ELSE st.objects]))

\* the for loop of splitTopLevelObjects from index i on: the objects pushed
\* (the iterations over characters that are no brace change nothing)
RECURSIVE splitLoop(_, _, _, _)
splitLoop(str, i, depth, start) ==
    With(FirstIn(i, Len(str) - 1, LAMBDA k : charAt(str, k) \in {"{", "}"}), LAMBDA j :
        IF j = -1 THEN <<>>
        ELSE IF charAt(str, j) = "{"
             THEN splitLoop(str, j + 1, depth + 1, IF depth = 0 THEN j ELSE start)
        ELSE IF depth - 1 = 0 /\ start # -1
             THEN <<substring(str, start, j + 1)>> \o splitLoop(str, j + 1, 0, -1)
             ELSE splitLoop(str, j + 1, depth - 1, start))

splitTopLevelObjects(str) == splitLoop(str, 0, 0, -1)

(***************************************************************************)
(* Section/list recursive extractor                                        *)
(***************************************************************************)

\* the filter of list items: `val !== 'true' && val !== 'false' && val.length > 2`
\* on the structured path, `val.length > 2` on the legacy path
keepItem(val, legacy) ==
    IF legacy THEN Len(val) > 2
    ELSE val # "true" /\ val # "false" /\ Len(val) > 2

\* the leftmost match of /'((?:[^'\\]|\\.)*)'/g at or after lastIndex
itemMatchFrom(s, lastIndex) ==
    With(FirstIn(lastIndex, Len(s) - 1,
                 LAMBDA j : charAt(s, j) = "'" /\ strEnd(s, j + 1, FALSE) # -1), LAMBDA i :
        IF i = -1 THEN NoMatch
        ELSE [found |-> TRUE, gs |-> i + 1, ge |-> strEnd(s, i + 1, FALSE),
              end |-> strEnd(s, i + 1, FALSE) + 1])

\* while ((itemMatch = itemRegex.exec(itemsStr)) !== null) { ... push ... }
RECURSIVE extractItems(_, _, _)
extractItems(itemsStr, lastIndex, legacy) ==
    With(itemMatchFrom(itemsStr, lastIndex), LAMBDA itemMatch :
    With(unescapeQuotes(Group(itemsStr, itemMatch)), LAMBDA val :
        IF ~itemMatch.found THEN <<>>
        ELSE (IF keepItem(val, legacy) THEN <<val>> ELSE <<>>)
             \o extractItems(itemsStr, itemMatch.end, legacy)))

\* one object of a 'lists' array: title, ordered and the items of 'items': [ ... ]
parseList(listStr) ==
    With(indexOf(listStr, "'items'", 0), LAMBDA itemsStart :
    With(indexOf(listStr, "[", itemsStart), LAMBDA itemsArrStart :
    With(matchDelimiter(listStr, "[", "]", itemsArrStart), LAMBDA itemPos :
    With(substring(listStr, itemsArrStart + 1, itemPos - 1), LAMBDA itemsStr :
        [title   |-> extractStringValue(listStr, "title"),
         ordered |-> includes(listStr, "'ordered': true"),
         items   |-> IF itemsStart # -1 /\ itemsArrStart # -1
                     THEN extractItems(itemsStr, 0, FALSE)
                     ELSE <<>>]))))

\* `if (list.items.length > 0) lists.push(list)` over the parsed list objects
RECURSIVE pushNonEmpty(_)
pushNonEmpty(sq) ==
    IF sq = <<>> THEN <<>>
    ELSE (IF Len(Head(sq).items) > 0 THEN <<Head(sq)>> ELSE <<>>)
         \o pushNonEmpty(Tail(sq))

\* the 'lists' field of a section or subsection object
parseLists(objStr) ==
    With(indexOf(objStr, "'lists'", 0), LAMBDA listsStart :
    With(indexOf(objStr, "[", listsStart), LAMBDA listsArrStart :
    With(matchDelimiter(objStr, "[", "]", listsArrStart), LAMBDA listPos :
    With(substring(objStr, listsArrStart + 1, listPos - 1), LAMBDA listsStr :
    With(splitTopLevelObjects(listsStr), LAMBDA listObjects :
    With([k \in 1..Len(listObjects) |-> parseList(listObjects[k])], LAMBDA parsed :
        IF listsStart # -1 /\ listsArrStart # -1
        THEN pushNonEmpty(parsed)
        ELSE <<>>))))))

\* /'src'\s*:\s*asset\(\s*'([^']*)'\s*\)/ anchored at i
imageSrcAt(s, i) ==
    With(skipWs(s, i + 5), LAMBDA c :
    With(skipWs(s, c + 1), LAMBDA a :
    With(skipWs(s, a + 6), LAMBDA q :
    With(plainStrAt(s, q), LAMBDA m :
    With(skipWs(s, m.end), LAMBDA r :
        IF /\ startsAt(s, i, "'src'")
           /\ charAt(s, c) = ":"
           /\ startsAt(s, a, "asset(")
           /\ m.found
           /\ charAt(s, r) = ")"
        THEN [found |-> TRUE, gs |-> m.gs, ge |-> m.ge, end |-> r + 1]
        ELSE NoMatch)))))

\* /'alt'\s*:\s*'([^']*)'/ anchored at i
imageAltAt(s, i) ==
    With(skipWs(s, i + 5), LAMBDA c :
    With(skipWs(s, c + 1), LAMBDA q :
    With(plainStrAt(s, q), LAMBDA m :
        IF startsAt(s, i, "'alt'") /\ charAt(s, c) = ":" /\ m.found
        THEN m
        ELSE NoMatch)))

\* /'image'\s*:\s*\{[\s\S]*?'src'...[\s\S]*?'alt'\s*:\s*'([^']*)'/ anchored at i:
\* each lazy [\s\S]*? stops at the first place from which the rest matches
imageAt(s, i) ==
    With(skipWs(s, i + 7), LAMBDA c :
    With(skipWs(s, c + 1), LAMBDA b :
    With(FirstIn(b + 1, Len(s) - 1, LAMBDA j : imageSrcAt(s, j).found), LAMBDA p :
    With(imageSrcAt(s, p), LAMBDA src :
    With(FirstIn(src.end, Len(s) - 1, LAMBDA j : imageAltAt(s, j).found), LAMBDA t :
    With(imageAltAt(s, t), LAMBDA alt :
        IF /\ startsAt(s, i, "'image'")
           /\ charAt(s, c) = ":"
           /\ charAt(s, b) = "{"
           /\ p # -1
           /\ t # -1
        THEN [found |-> TRUE, src |-> substring(s, src.gs, src.ge),
              alt |-> substring(s, alt.gs, alt.ge)]
        ELSE NoMatch))))))

\* objStr.match(/'image'\s*:\s*\{ ... /)
imageMatch(s) ==
    With(FirstIn(0, Len(s) - 1, LAMBDA j : imageAt(s, j).found), LAMBDA i :
        IF i = -1 THEN NoMatch ELSE imageAt(s, i))

\* `if (imgMatch) { o.imageSrc = imgMatch[1]; o.imageAlt = imgMatch[2]; }`
withImage(o, objStr) ==
    With(imageMatch(objStr), LAMBDA m :
        IF m.found THEN [imageSrc |-> m.src, imageAlt |-> m.alt] @@ o ELSE o)

\* subStr.match(/'items'\s*:\s*\[([\s\S]*?)\]/): the group, or NoMatch
simpleListAt(s, i) ==
    With(skipWs(s, i + 7), LAMBDA c :
    With(skipWs(s, c + 1), LAMBDA b :
    With(indexOf(s, "]", b + 1), LAMBDA e :
        IF /\ startsAt(s, i, "'items'")
           /\ charAt(s, c) = ":"
           /\ charAt(s, b) = "["
           /\ e # -1
        THEN [found |-> TRUE, gs |-> b + 1, ge |-> e, end |-> e + 1]
        ELSE NoMatch)))

simpleListMatch(s) ==
    With(FirstIn(0, Len(s) - 1, LAMBDA j : simpleListAt(s, j).found), LAMBDA i :
        IF i = -1 THEN NoMatch ELSE simpleListAt(s, i))

\* the legacy path of a subsection: a bare 'items' array
legacyLists(subStr) ==
    With(simpleListMatch(subStr), LAMBDA m :
    With(extractItems(Group(subStr, m), 0, TRUE), LAMBDA items :
        IF m.found /\ Len(items) > 0
        THEN << [title |-> "", ordered |-> FALSE, items |-> items] >>
        ELSE <<>>))

\* one object of a 'subsections' array
parseSubsection(subStr) ==
    With(parseLists(subStr), LAMBDA lists :
        withImage([subheading        |-> extractStringValue(subStr, "subheading"),
                   content           |-> extractStringValue(subStr, "content"),
                   additionalContent |-> extractStringValue(subStr, "additional_content"),
                   lists |-> IF Len(lists) = 0 THEN legacyLists(subStr) ELSE lists],
                  subStr))

\* the 'subsections' field of a section object
parseSubsections(sectionStr) ==
    With(indexOf(sectionStr, "'subsections'", 0), LAMBDA subStart :
    With(indexOf(sectionStr, "[", subStart), LAMBDA subArrStart :
    With(matchDelimiter(sectionStr, "[", "]", subArrStart), LAMBDA subPos :
    With(substring(sectionStr, subArrStart + 1, subPos - 1), LAMBDA subsStr :
    With(splitTopLevelObjects(subsStr), LAMBDA subObjects :
        IF subStart # -1 /\ subArrStart # -1
        THEN [k \in 1..Len(subObjects) |-> parseSubsection(subObjects[k])]
        ELSE <<>>)))))

\* one object of the content-sections array
parseSection(sectionStr) ==
    withImage([id                |-> extractStringValue(sectionStr, "id"),
               heading           |-> extractStringValue(sectionStr, "heading"),
               content           |-> extractStringValue(sectionStr, "content"),
               additionalContent |-> extractStringValue(sectionStr, "additional_content"),
               lists             |-> parseLists(sectionStr),
               subsections       |-> parseSubsections(sectionStr)],
              sectionStr)

\* the index of the '[' that opens the content-sections array, or -1
sectionsArrStart(hashContent) ==
    With(indexOf(hashContent, "'content_sections'", 0), LAMBDA csStart :
        IF csStart # -1
        THEN indexOf(hashContent, "[", csStart)
        ELSE indexOf(hashContent, "[", skipStrings(hashContent, 0, FALSE, 0)))

parseContentSections(hashContent) ==
    With(sectionsArrStart(hashContent), LAMBDA arrStart :
    With(matchDelimiter(hashContent, "[", "]", arrStart), LAMBDA pos :
    With(substring(hashContent, arrStart + 1, pos - 1), LAMBDA sectionsStr :
    With(splitTopLevelObjects(sectionsStr), LAMBDA sectionObjects :
        IF arrStart = -1 \/ arrStart >= Len(hashContent)
        THEN <<>>
        ELSE [k \in 1..Len(sectionObjects) |-> parseSection(sectionObjects[k])]))))

(***************************************************************************)
(* Grammar dispatcher and its three extraction strategies                  *)
(***************************************************************************)

\* a record with no field
EmptyRecord == [k \in {} |-> ""]

\* /\{%\s*block\s+NAME\s*%\}/ anchored at i: the index after the match, or -1
blockOpenAt(s, i, name) ==
    With(skipWs(s, i + 2), LAMBDA a :
    With(skipWs(s, a + 5), LAMBDA b :
    With(skipWs(s, b + Len(name)), LAMBDA c :
        IF /\ startsAt(s, i, "{%")
           /\ startsAt(s, a, "block")
           /\ b > a + 5
           /\ startsAt(s, b, name)
           /\ startsAt(s, c, "%}")
        THEN c + 2
        ELSE -1)))

\* /\{%\s*endblock/ anchored at i
endblockAt(s, i) == startsAt(s, i, "{%") /\ startsAt(s, skipWs(s, i + 2), "endblock")

\* s.match(/\{%\s*block\s+NAME\s*%\}([\s\S]*?)\{%\s*endblock/): the group
blockMatch(s, name) ==
    LET hasEnd(e) == e # -1 /\ \E j \in e..(Len(s) - 1) : endblockAt(s, j)
    IN  With(FirstIn(0, Len(s) - 1, LAMBDA k : hasEnd(blockOpenAt(s, k, name))),
             LAMBDA i :
        With(blockOpenAt(s, i, name), LAMBDA gs :
            IF i = -1 THEN NoMatch
            ELSE [found |-> TRUE, gs |-> gs,
                  ge |-> FirstIn(gs, Len(s) - 1, LAMBDA j : endblockAt(s, j))]))

\* /OPEN.*?CLOSE/ anchored at i ('.' stops at a line terminator): the index
\* after the match, or -1
directiveAt(s, i, open, close) ==
    With(indexOf(s, close, i + 2), LAMBDA j :
        IF /\ startsAt(s, i, open)
           /\ j # -1
           /\ \A k \in (i + 2)..(j - 1) : charAt(s, k) \notin LineTerminator
        THEN j + 2
        ELSE -1)

\* s.replace(/OPEN.*?CLOSE/g, '') applied from index from on
RECURSIVE stripDirectives(_, _, _, _)
stripDirectives(s, open, close, from) ==
    With(FirstIn(from, Len(s) - 1, LAMBDA k : directiveAt(s, k, open, close) # -1), LAMBDA i :
        IF i = -1
        THEN substring(s, from, Len(s))
        ELSE substring(s, from, i)
             \o stripDirectives(s, open, close, directiveAt(s, i, open, close)))

\* s.replace(/\s+/g, ' ') applied from index from on
RECURSIVE collapseWs(_, _)
collapseWs(s, from) ==
    With(FirstIn(from, Len(s) - 1, LAMBDA k : charAt(s, k) \in WS), LAMBDA i :
        IF i = -1
        THEN substring(s, from, Len(s))
        ELSE substring(s, from, i) \o " " \o collapseWs(s, skipWs(s, i)))

\* content.match(/name="description"\s+content="([^"]*)"/)
metaDescAt(s, i) ==
    With(skipWs(s, i + 18), LAMBDA a :
    With(indexOf(s, "\"", a + 9), LAMBDA e :
        IF /\ startsAt(s, i, "name=\"description\"")
           /\ a > i + 18
           /\ startsAt(s, a, "content=\"")
           /\ e # -1
        THEN [found |-> TRUE, gs |-> a + 9, ge |-> e]
        ELSE NoMatch))

metaDescMatch(s) ==
    With(FirstIn(0, Len(s) - 1, LAMBDA k : metaDescAt(s, k).found), LAMBDA i :
        IF i = -1 THEN NoMatch ELSE metaDescAt(s, i))

\* the result object is the one of the article before instead of a new one
metaFieldsOfSharedResult(content) ==
    With(blockMatch(content, "title"), LAMBDA titleMatch :
    With(metaDescMatch(content), LAMBDA descMatch :
        (IF titleMatch.found
         THEN [metaTitle |->
                 trim(collapseWs(stripDirectives(Group(content, titleMatch),
                                                 "{{", "}}", 0), 0))]
         ELSE EmptyRecord)
        @@
        (IF descMatch.found
         THEN [metaDescription |-> trim(Group(content, descMatch))]
         ELSE EmptyRecord)
        @@ article))

\* the fields parseTwigFile sets before it dispatches
metaFields(content) ==
    With(blockMatch(content, "title"), LAMBDA titleMatch :
    With(metaDescMatch(content), LAMBDA descMatch :
        (IF titleMatch.found
         THEN [metaTitle |->
                 trim(collapseWs(stripDirectives(Group(content, titleMatch),
                                                 "{{", "}}", 0), 0))]
         ELSE EmptyRecord)
        @@
        (IF descMatch.found
         THEN [metaDescription |-> trim(Group(content, descMatch))]
         ELSE EmptyRecord)))

\* /asset\(\s*'([^']*)'\s*\)/ anchored at i
assetAt(s, i) ==
    With(skipWs(s, i + 6), LAMBDA q :
    With(plainStrAt(s, q), LAMBDA m :
    With(skipWs(s, m.end), LAMBDA r :
        IF startsAt(s, i, "asset(") /\ m.found /\ charAt(s, r) = ")"
        THEN [found |-> TRUE, gs |-> m.gs, ge |-> m.ge, end |-> r + 1]
        ELSE NoMatch)))

\* /'image'\s*:\s*asset\(\s*'([^']*)'\s*\)/ anchored at i
keyedAssetAt(s, i) ==
    With(skipWs(s, i + 7), LAMBDA c :
    With(skipWs(s, c + 1), LAMBDA a :
        IF startsAt(s, i, "'image'") /\ charAt(s, c) = ":"
        THEN assetAt(s, a)
        ELSE NoMatch))

\* /\{\s*'K1'\s*:\s*'([^']*)'\s*,\s*'K2'\s*:\s*'([^']*)'\s*\}/ anchored at i
tocAt(s, i, k1, k2) ==
    With(skipWs(s, i + 1), LAMBDA a :
    With(skipWs(s, a + Len(k1) + 2), LAMBDA c :
    With(plainStrAt(s, skipWs(s, c + 1)), LAMBDA m1 :
    With(skipWs(s, m1.end), LAMBDA d :
    With(skipWs(s, d + 1), LAMBDA e :
    With(skipWs(s, e + Len(k2) + 2), LAMBDA f :
    With(plainStrAt(s, skipWs(s, f + 1)), LAMBDA m2 :
    With(skipWs(s, m2.end), LAMBDA g :
        IF /\ charAt(s, i) = "{"
           /\ startsAt(s, a, "'" \o k1 \o "'")
           /\ charAt(s, c) = ":"
           /\ m1.found
           /\ charAt(s, d) = ","
           /\ startsAt(s, e, "'" \o k2 \o "'")
           /\ charAt(s, f) = ":"
           /\ m2.found
           /\ charAt(s, g) = "}"
        THEN [found |-> TRUE, g1 |-> substring(s, m1.gs, m1.ge),
              g2 |-> substring(s, m2.gs, m2.ge), end |-> g + 1]
        ELSE NoMatch))))))))

\* while ((m = tocRegex.exec(s)) !== null) push(...): the pairs <<g1, g2>> of
\* the successive matches from lastIndex on
RECURSIVE tocMatches(_, _, _, _)
tocMatches(s, k1, k2, lastIndex) ==
    With(FirstIn(lastIndex, Len(s) - 1, LAMBDA j : tocAt(s, j, k1, k2).found), LAMBDA i :
    With(tocAt(s, i, k1, k2), LAMBDA m :
        IF i = -1 THEN <<>>
        ELSE << <<m.g1, m.g2>> >> \o tocMatches(s, k1, k2, m.end)))

\* the leftmost match of an anchored matcher At(_) in s
firstMatch(s, At(_)) ==
    With(FirstIn(0, Len(s) - 1, LAMBDA j : At(j).found), LAMBDA i :
        IF i = -1 THEN NoMatch ELSE At(i))

\* the {href, title} records of the successive matches of a TOC RegExp whose
\* first group is the field k1
tocItemsOf(s, k1, k2) ==
    With(tocMatches(s, k1, k2, 0), LAMBDA ms :
        [n \in 1..Len(ms) |->
            IF k1 = "href" THEN [href |-> ms[n][1], title |-> ms[n][2]]
            ELSE [href |-> ms[n][2], title |-> ms[n][1]]])

\* PATTERN 1: {% set article_data = { ... } %}
parseArticleDataPattern(content, setStart, result) ==
    With(indexOf(content, "{", indexOf(content, "{", setStart) + 1), LAMBDA afterSet :
    With(matchDelimiter(content, "{", "}", afterSet), LAMBDA pos :
    With(substring(content, afterSet, pos), LAMBDA hashContent :
    With(firstMatch(hashContent, LAMBDA i : keyedAssetAt(hashContent, i)), LAMBDA imageM :
        [title           |-> extractStringValue(hashContent, "title"),
         imageAlt        |-> extractStringValue(hashContent, "image_alt"),
         introText       |-> extractStringValue(hashContent, "intro_text"),
         tocItems        |-> tocItemsOf(hashContent, "href", "title"),
         contentSections |-> parseContentSections(hashContent),
         conclusion      |-> extractStringValue(hashContent, "conclusion")]
        @@ (IF imageM.found THEN [imagePath |-> Group(hashContent, imageM)]
            ELSE EmptyRecord)
        @@ result))))

\* Find where the content_sections array ends in the macro args.
findContentSectionsEnd(text) ==
    With(indexOf(text, "[", skipStrings(text, 0, FALSE, 0)), LAMBDA i :
        IF i = -1 THEN -1 ELSE matchDelimiter(text, "[", "]", i))

\* /^\s*'((?:[^'\\]|\\.)*)'/s
macroTitleMatch(s) ==
    With(skipWs(s, 0), LAMBDA q :
    With(strEnd(s, q + 1, TRUE), LAMBDA e :
        IF charAt(s, q) = "'" /\ e # -1
        THEN [found |-> TRUE, gs |-> q + 1, ge |-> e, end |-> e + 1]
        ELSE NoMatch))

\* /,\s*'((?:[^'\\]|\\.)*)'/s anchored at i
commaStrAt(s, i) ==
    With(skipWs(s, i + 1), LAMBDA q :
    With(strEnd(s, q + 1, TRUE), LAMBDA e :
        IF charAt(s, i) = "," /\ charAt(s, q) = "'" /\ e # -1
        THEN [found |-> TRUE, gs |-> q + 1, ge |-> e, end |-> e + 1]
        ELSE NoMatch))

\* /,\s*'(?:[^'\\]|\\.)*'\s*,\s*'((?:[^'\\]|\\.)*)'/s anchored at i
commaStrStrAt(s, i) ==
    With(commaStrAt(s, i), LAMBDA m1 :
        IF m1.found THEN commaStrAt(s, skipWs(s, m1.end)) ELSE NoMatch)

\* the TOC cascade of parseMacroCallPattern
\* if (tocM[2].startsWith('#')) push: the items whose href starts with #
RECURSIVE hashOnly(_)
hashOnly(sq) ==
    IF sq = <<>> THEN <<>>
    ELSE (IF startsAt(Head(sq).href, 0, "#") THEN <<Head(sq)>> ELSE <<>>)
         \o hashOnly(Tail(sq))

\* the cascade with the matches of the two orderings put together
macroTocItemsMixed(macroArgs) ==
    With(findContentSectionsEnd(macroArgs), LAMBDA contentSectionsEnd :
    With(IF contentSectionsEnd > 0
         THEN substring(macroArgs, contentSectionsEnd, Len(macroArgs))
         ELSE macroArgs, LAMBDA afterSections :
    With(tocItemsOf(afterSections, "title", "href"), LAMBDA toc1 :
    With(tocItemsOf(afterSections, "href", "title"), LAMBDA toc2 :
        IF Len(toc1) # 0 \/ Len(toc2) # 0 THEN toc1 \o toc2
        ELSE hashOnly(tocItemsOf(macroArgs, "title", "href"))))))

macroTocItems(macroArgs) ==
    With(findContentSectionsEnd(macroArgs), LAMBDA contentSectionsEnd :
    With(IF contentSectionsEnd > 0
         THEN substring(macroArgs, contentSectionsEnd, Len(macroArgs))
         ELSE macroArgs, LAMBDA afterSections :
    With(tocItemsOf(afterSections, "title", "href"), LAMBDA toc1 :
    With(tocItemsOf(afterSections, "href", "title"), LAMBDA toc2 :
        IF Len(toc1) # 0 THEN toc1
        ELSE IF Len(toc2) # 0 THEN toc2
        ELSE hashOnly(tocItemsOf(macroArgs, "title", "href"))))))

\* PATTERN 2: {{ blog_macros.blog_content( title, image, image_alt, intro,
\* sections, toc, conclusion ) }}
parseMacroCallPattern(content, macroStart, result) ==
    With(indexOf(content, "(", macroStart), LAMBDA parenStart :
    With(matchDelimiter(content, "(", ")", parenStart), LAMBDA pos :
    With(substring(content, parenStart + 1, pos - 1), LAMBDA macroArgs :
    With(macroTitleMatch(macroArgs), LAMBDA titleMatch :
    With(firstMatch(macroArgs, LAMBDA i : assetAt(macroArgs, i)), LAMBDA imageM :
    With(indexOf(macroArgs, ")", indexOf(macroArgs, "asset(", 0)) + 1, LAMBDA afterAsset :
    With(substring(macroArgs, afterAsset, Len(macroArgs)), LAMBDA afterAssetStr :
    With(firstMatch(afterAssetStr, LAMBDA i : commaStrAt(afterAssetStr, i)), LAMBDA altMatch :
    With(firstMatch(afterAssetStr,
                    LAMBDA i : commaStrStrAt(afterAssetStr, i)), LAMBDA introMatch :
        [contentSections |-> parseContentSections(macroArgs),
         tocItems        |-> macroTocItems(macroArgs)]
        @@ (IF titleMatch.found
            THEN [title |-> unescapeQuotes(Group(macroArgs, titleMatch))]
            ELSE EmptyRecord)
        @@ (IF imageM.found THEN [imagePath |-> Group(macroArgs, imageM)]
            ELSE EmptyRecord)
        @@ (IF altMatch.found
            THEN [imageAlt |-> unescapeQuotes(Group(afterAssetStr, altMatch))]
            ELSE EmptyRecord)
        @@ (IF introMatch.found
            THEN [introText |-> unescapeQuotes(Group(afterAssetStr, introMatch))]
            ELSE EmptyRecord)
        @@ result)))))))))

\* Fallback for articles that don't use article_data structure.
\* the fallback extraction that leaves the markup directives in the text
extractFallbackContentRaw(content, result) ==
    With(blockMatch(content, "workarea_content"), LAMBDA workareaMatch :
        IF workareaMatch.found
        THEN [rawHtml |-> trim(Group(content, workareaMatch))] @@ result
        ELSE result)

extractFallbackContent(content, result) ==
    With(blockMatch(content, "workarea_content"), LAMBDA workareaMatch :
        IF workareaMatch.found
        THEN [rawHtml |->
                trim(stripDirectives(
                        stripDirectives(Group(content, workareaMatch), "{{", "}}", 0),
                        "{%", "%}", 0))]
             @@ result
        ELSE result)

\* a dispatch that looks for the macro call first
dispatchMacroFirst(content) ==
    IF indexOf(content, "blog_macros.blog_content(", 0) # -1 THEN "parseMacroCallPattern"
    ELSE IF indexOf(content, "{% set article_data", 0) # -1
         THEN "parseArticleDataPattern"
    ELSE "extractFallbackContent"

\* the strategy parseTwigFile hands the content to
dispatch(content) ==
    IF indexOf(content, "{% set article_data", 0) # -1 THEN "parseArticleDataPattern"
    ELSE IF indexOf(content, "blog_macros.blog_content(", 0) # -1
         THEN "parseMacroCallPattern"
    ELSE "extractFallbackContent"

parseTwigFile(content) ==
    With(metaFields(content), LAMBDA result :
    With(indexOf(content, "{% set article_data", 0), LAMBDA setStart :
    With(indexOf(content, "blog_macros.blog_content(", 0), LAMBDA macroStart :
        CASE dispatch(content) = "parseArticleDataPattern" ->
                parseArticleDataPattern(content, setStart, result)
          [] dispatch(content) = "parseMacroCallPattern" ->
                parseMacroCallPattern(content, macroStart, result)
          [] OTHER -> extractFallbackContent(content, result))))

(***************************************************************************)
(* Inline markup converter                                                 *)
(***************************************************************************)

\* a text node after the final `children.map(c => clean)`
TextRun(text, bold, italic) ==
    [type |-> "text", text |-> text, bold |-> bold, italic |-> italic]

\* /OPEN[\s\S]*?CLOSE/ anchored at i: the index after the match, or -1
pairAt(s, i, open, close) ==
    With(indexOf(s, close, i + Len(open)), LAMBDA c :
        IF startsAt(s, i, open) /\ c # -1 THEN c + Len(close) ELSE -1)

\* /<a\s[^>]*>[\s\S]*?<\/a>/ anchored at i: the index after the match, or -1
anchorAt(s, i) ==
    With(indexOf(s, ">", i + 3), LAMBDA gt :
    With(indexOf(s, "</a>", gt + 1), LAMBDA c :
        IF /\ startsAt(s, i, "<a")
           /\ charAt(s, i + 2) \in WS
           /\ gt # -1
           /\ c # -1
        THEN c + 4
        ELSE -1))

\* the separator RegExp of parseInlineHtml anchored at i, its alternatives
\* tried in order: the index after the match, or -1
separatorAt(s, i) ==
    IF anchorAt(s, i) # -1 THEN anchorAt(s, i)
    ELSE IF pairAt(s, i, "<strong>", "</strong>") # -1
         THEN pairAt(s, i, "<strong>", "</strong>")
    ELSE IF pairAt(s, i, "<b>", "</b>") # -1 THEN pairAt(s, i, "<b>", "</b>")
    ELSE IF pairAt(s, i, "<em>", "</em>") # -1 THEN pairAt(s, i, "<em>", "</em>")
    ELSE pairAt(s, i, "<i>", "</i>")

\* text.split(/(...)/) from index p on: the pieces and the captured separators
RECURSIVE splitTags(_, _)
splitTags(text, p) ==
    With(FirstIn(p, Len(text) - 1, LAMBDA j : separatorAt(text, j) # -1), LAMBDA q :
        IF q = -1
        THEN << substring(text, p, Len(text)) >>
        ELSE << substring(text, p, q), substring(text, q, separatorAt(text, q)) >>
             \o splitTags(text, separatorAt(text, q)))

\* /<a\s+href="([^"]*)"[^>]*>([\s\S]*?)<\/a>/ anchored at i; the second group
linkAt(s, i) ==
    With(skipWs(s, i + 2), LAMBDA a :
    With(indexOf(s, "\"", a + 6), LAMBDA q :
    With(indexOf(s, ">", q + 1), LAMBDA gt :
    With(indexOf(s, "</a>", gt + 1), LAMBDA c :
        IF /\ startsAt(s, i, "<a")
           /\ a > i + 2
           /\ startsAt(s, a, "href=\"")
           /\ q # -1
           /\ gt # -1
           /\ c # -1
        THEN [found |-> TRUE, gs |-> gt + 1, ge |-> c]
        ELSE NoMatch))))

InlineTags == <<"<strong>", "</strong>", "<b>", "</b>", "<em>", "</em>", "<i>", "</i>">>

\* /<\/?strong>|<\/?b>|<\/?em>|<\/?i>/ anchored at i: the index after the match, or -1
inlineTagAt(s, i) ==
    With(FirstIn(1, Len(InlineTags), LAMBDA n : startsAt(s, i, InlineTags[n])), LAMBDA k :
        IF k = -1 THEN -1 ELSE i + Len(InlineTags[k]))

\* s.replace(/<\/?strong>|<\/?b>|<\/?em>|<\/?i>/g, '') from index from on
RECURSIVE stripInlineTags(_, _)
stripInlineTags(s, from) ==
    With(FirstIn(from, Len(s) - 1, LAMBDA j : inlineTagAt(s, j) # -1), LAMBDA i :
        IF i = -1
        THEN substring(s, from, Len(s))
        ELSE substring(s, from, i) \o stripInlineTags(s, inlineTagAt(s, i)))

\* /<(?:A|B)>([\s\S]*?)<\/(?:A|B)>/ anchored at i, for the tag names A and B
emphasisAt(s, i, A, B) ==
    With(IF startsAt(s, i, "<" \o A \o ">") THEN i + Len(A) + 2
         ELSE IF startsAt(s, i, "<" \o B \o ">") THEN i + Len(B) + 2
         ELSE -1, LAMBDA openEnd :
    With(FirstIn(openEnd, Len(s) - 1,
                 LAMBDA j : \/ startsAt(s, j, "</" \o A \o ">")
                            \/ startsAt(s, j, "</" \o B \o ">")), LAMBDA c :
        IF openEnd # -1 /\ c # -1
        THEN [found |-> TRUE, gs |-> openEnd, ge |-> c]
        ELSE NoMatch))

\* the runs one piece of the split contributes (the body of the for loop)
partRuns(part) ==
    With(firstMatch(part, LAMBDA i : linkAt(part, i)), LAMBDA linkMatch :
    With(firstMatch(part, LAMBDA i : emphasisAt(part, i, "strong", "b")), LAMBDA boldMatch :
    With(firstMatch(part, LAMBDA i : emphasisAt(part, i, "em", "i")), LAMBDA italicMatch :
    With(Group(part, linkMatch), LAMBDA inner :
        IF part = "" THEN <<>>
        ELSE IF linkMatch.found
             THEN << TextRun(trim(stripInlineTags(inner, 0)),
                             includes(inner, "<strong>") \/ includes(inner, "<b>"),
                             FALSE) >>
        ELSE IF boldMatch.found THEN << TextRun(Group(part, boldMatch), TRUE, FALSE) >>
        ELSE IF italicMatch.found
             THEN << TextRun(Group(part, italicMatch), FALSE, TRUE) >>
        ELSE IF trim(part) # "" THEN << TextRun(part, FALSE, FALSE) >>
        ELSE <<>>))))

RECURSIVE concatRuns(_)
concatRuns(parts) ==
    IF parts = <<>> THEN <<>> ELSE partRuns(Head(parts)) \o concatRuns(Tail(parts))

parseInlineHtml(text) ==
    With(concatRuns(splitTags(text, 0)), LAMBDA children :
        IF Len(children) = 0 THEN << TextRun(text, FALSE, FALSE) >> ELSE children)

(***************************************************************************)
(* Block assembler                                                         *)
(***************************************************************************)

\* the bound of the fallback paragraph: parsed.rawHtml.substring(0, 2000)
RawHtmlLimit == 2000

\* a field that is present and truthy (a non-empty string, or any array)
truthy(o, k) == k \in DOMAIN o /\ o[k] # ""

\* text.split('|') from index from on
RECURSIVE splitPipe(_, _)
splitPipe(text, from) ==
    With(indexOf(text, "|", from), LAMBDA i :
        IF i = -1 THEN << substring(text, from, Len(text)) >>
        ELSE << substring(text, from, i) >> \o splitPipe(text, i + 1))

Paragraph(children) == [type |-> "paragraph", children |-> children]

Heading(level, text) ==
    [type |-> "heading", level |-> level,
     children |-> << TextRun(text, FALSE, FALSE) >>]

\* the paragraphs pushed for the pieces of a split
RECURSIVE pushParagraphs(_)
pushParagraphs(paragraphs) ==
    IF paragraphs = <<>> THEN <<>>
    ELSE (IF trim(Head(paragraphs)) # ""
          THEN << Paragraph(parseInlineHtml(trim(Head(paragraphs)))) >>
          ELSE <<>>)
         \o pushParagraphs(Tail(paragraphs))

\* Helper: add pipe-separated paragraphs to blocks array.
addParagraphs(blocks, text) == blocks \o pushParagraphs(splitPipe(text, 0))

\* the blocks pushed for one entry of lists: the bold title, then the list
listBlocks(list) ==
    (IF truthy(list, "title")
     THEN << Paragraph(<< TextRun(list.title, TRUE, FALSE) >>) >>
     ELSE <<>>)
    \o << [type |-> "list",
           format |-> IF list.ordered THEN "ordered" ELSE "unordered",
           children |-> [n \in 1..Len(list.items) |->
                            [type |-> "list-item",
                             children |-> parseInlineHtml(unescapeQuotes(list.items[n]))]]] >>

RECURSIVE addLists(_, _)
addLists(blocks, lists) ==
    IF lists = <<>> THEN blocks
    ELSE addLists(blocks \o listBlocks(Head(lists)), Tail(lists))

\* an array field, or the empty array when the field is missing
arrayOf(o, k) == IF k \in DOMAIN o THEN o[k] ELSE <<>>

\* the body of `for (const sub of section.subsections)`
addSubsection(blocks, sub) ==
    With(IF truthy(sub, "subheading")
         THEN blocks \o << Heading(3, sub.subheading) >> ELSE blocks, LAMBDA b1 :
    With(IF truthy(sub, "content") THEN addParagraphs(b1, sub.content) ELSE b1, LAMBDA b2 :
    With(addLists(b2, arrayOf(sub, "lists")), LAMBDA b3 :
        IF truthy(sub, "additionalContent")
        THEN addParagraphs(b3, sub.additionalContent) ELSE b3)))

RECURSIVE addSubsections(_, _)
addSubsections(blocks, subs) ==
    IF subs = <<>> THEN blocks
    ELSE addSubsections(addSubsection(blocks, Head(subs)), Tail(subs))

\* a section whose additional content is put in front of its lists
addSectionListsLast(blocks, section) ==
    With(IF truthy(section, "heading")
         THEN blocks \o << Heading(2, section.heading) >> ELSE blocks, LAMBDA b1 :
    With(IF truthy(section, "content")
         THEN addParagraphs(b1, section.content) ELSE b1, LAMBDA b2 :
    With(IF truthy(section, "additionalContent")
         THEN addParagraphs(b2, section.additionalContent) ELSE b2, LAMBDA b3 :
    With(addLists(b3, arrayOf(section, "lists")), LAMBDA b4 :
        addSubsections(b4, arrayOf(section, "subsections"))))))

\* the body of `for (const section of parsed.contentSections)`
addSection(blocks, section) ==
    With(IF truthy(section, "heading")
         THEN blocks \o << Heading(2, section.heading) >> ELSE blocks, LAMBDA b1 :
    With(IF truthy(section, "content")
         THEN addParagraphs(b1, section.content) ELSE b1, LAMBDA b2 :
    With(addLists(b2, arrayOf(section, "lists")), LAMBDA b3 :
    With(IF truthy(section, "additionalContent")
         THEN addParagraphs(b3, section.additionalContent) ELSE b3, LAMBDA b4 :
        addSubsections(b4, arrayOf(section, "subsections"))))))

RECURSIVE addSections(_, _)
addSections(blocks, sections) ==
    IF sections = <<>> THEN blocks
    ELSE addSections(addSection(blocks, Head(sections)), Tail(sections))

buildRichTextContent(parsed) ==
    With(IF truthy(parsed, "introText")
         THEN addParagraphs(<<>>, parsed.introText) ELSE <<>>, LAMBDA b1 :
    With(addSections(b1, arrayOf(parsed, "contentSections")), LAMBDA b2 :
    With(IF truthy(parsed, "conclusion")
         THEN addParagraphs(b2, parsed.conclusion) ELSE b2, LAMBDA b3 :
        IF Len(b3) = 0 /\ truthy(parsed, "rawHtml")
        THEN << Paragraph(<< TextRun(substring(parsed.rawHtml, 0, RawHtmlLimit),
                                     FALSE, FALSE) >>) >>
        ELSE b3)))

(***************************************************************************)
(* Template files: the inputs of the engine                                *)
(***************************************************************************)

\* most sections a template's content-sections array holds
MaxSections == 2

\* most pieces the fallback content region of a template is written from
MaxRegionPieces == 2

\* length of the long text piece: one more than the fallback paragraph keeps
LongLen == 2001

\* s repeated n times
RECURSIVE Rep(_, _)
Rep(s, n) ==
    IF n = 0 THEN ""
    ELSE LET h == Rep(s, n \div 2)
         IN  IF n % 2 = 0 THEN h \o h ELSE h \o h \o s

\* the strings f[1], ..., f[n] joined with sep
RECURSIVE Join(_, _, _)
Join(f, n, sep) ==
    IF n = 0 THEN ""
    ELSE IF n = 1 THEN f[1]
    ELSE Join(f, n - 1, sep) \o sep \o f[n]

\* all sequences of length at most n over S
SeqsUpTo(S, n) == UNION {[1..k -> S] : k \in 0..n}

Quoted(v) == "'" \o v \o "'"

\* 'key': 'value', or nothing when the value is empty
Pair(key, v) == IF v = "" THEN <<>> ELSE << Quoted(key) \o ": " \o Quoted(v) >>

RenderFields(fs) == "{" \o Join(fs, Len(fs), ", ") \o "}"

RenderList(l) ==
    RenderFields(Pair("title", l.title)
                 \o << "'items': [" \o Join([n \in 1..Len(l.items) |-> Quoted(l.items[n])],
                                            Len(l.items), ",") \o "]" >>
                 \o << "'ordered': " \o (IF l.ordered THEN "true" ELSE "false") >>)

RenderLists(ls) ==
    IF ls = <<>> THEN <<>>
    ELSE << "'lists': [" \o Join([n \in 1..Len(ls) |-> RenderList(ls[n])], Len(ls), ", ")
            \o "]" >>

RenderSubsection(sub) ==
    RenderFields(Pair("subheading", sub.subheading) \o Pair("content", sub.content)
                 \o RenderLists(sub.lists)
                 \o Pair("additional_content", sub.additionalContent))

RenderSection(sec) ==
    RenderFields(Pair("id", sec.id) \o Pair("heading", sec.heading)
                 \o Pair("content", sec.content)
                 \o RenderLists(sec.lists)
                 \o Pair("additional_content", sec.additionalContent)
                 \o (IF sec.subsections = <<>> THEN <<>>
                     ELSE << "'subsections': ["
                             \o Join([n \in 1..Len(sec.subsections) |->
                                         RenderSubsection(sec.subsections[n])],
                                     Len(sec.subsections), ", ")
                             \o "]" >>))

\* the content-sections array; an "openArray" template lacks its closing bracket
RenderSections(t) ==
    "[ " \o Join([n \in 1..Len(t.sections) |-> RenderSection(t.sections[n])],
                 Len(t.sections), ", ")
    \o (IF t.damage = "openArray" THEN "" ELSE " ]")

\* the named-object form; an "openObject" template lacks its closing brace
RenderArticleData(t) ==
    With(Pair("title", t.title) \o Pair("intro_text", t.introText)
         \o << "'content_sections': " \o RenderSections(t) >>
         \o Pair("conclusion", t.conclusion), LAMBDA fields :
        "{% set article_data = { " \o Join(fields, Len(fields), ", ")
        \o (IF t.damage = "openObject" THEN "" ELSE " }") \o " %}")

\* the positional-call form; an "openObject" template lacks its closing parenthesis
RenderMacroCall(t) ==
    "{{ blog_macros.blog_content( "
    \o Quoted(t.title) \o ", asset('img/a.png'), 'alt text', " \o Quoted(t.introText)
    \o ", " \o RenderSections(t)
    \o ", [ {'title': 'Head', 'href': '#s1'} ], "
    \o (IF t.conclusion = "" THEN "null" ELSE Quoted(t.conclusion))
    \o (IF t.damage = "openObject" THEN "" ELSE " )") \o " }}"

\* the pieces a fallback content region is written from: what the file holds
\* and the text that is left of it when the markup directives are taken out
RegionPiece ==
    { [src |-> "hello world",       text |-> "hello world"],
      [src |-> " \n ",              text |-> " \n "],
      [src |-> "{{ path('home') }}", text |-> ""],
      [src |-> "{% if promo %}",    text |-> ""],
      [src |-> Rep("x", LongLen),   text |-> Rep("x", LongLen)] }

RenderRegion(t) ==
    "{% block workarea_content %}"
    \o Join([n \in 1..Len(t.region) |-> t.region[n].src], Len(t.region), "")
    \o "{% endblock %}"

TemplateHead == "{% block title %}Blog {{ site }}{% endblock %}\n"

RenderTemplate(t) ==
    TemplateHead
    \o (CASE t.form = "articleData" -> RenderArticleData(t)
          [] t.form = "macroCall" -> RenderMacroCall(t)
          [] t.form = "articleDataThenMacroCall" ->
                RenderArticleData(t) \o "\n" \o RenderMacroCall(t)
          [] t.form = "macroCallThenArticleData" ->
                RenderMacroCall(t) \o "\n" \o RenderArticleData(t)
          [] t.form = "workarea" -> RenderRegion(t)
          [] OTHER -> "<p>static page</p>")

\* the section of the end-to-end scenario: a list of two one-letter items
SecScenario ==
    [id |-> "", heading |-> "H", content |-> "C",
     lists |-> << [title |-> "L", items |-> <<"x", "y">>, ordered |-> TRUE] >>,
     additionalContent |-> "", subsections |-> <<>>]

\* a section with every field, one list and one subsection
SecFull ==
    [id |-> "s1", heading |-> "Cover", content |-> "First|Second",
     lists |-> << [title |-> "Steps", items |-> <<"one", "two">>, ordered |-> FALSE] >>,
     additionalContent |-> "More",
     subsections |->
        << [subheading |-> "Sub", content |-> "Inner",
            lists |-> << [title |-> "", items |-> <<"abc">>, ordered |-> TRUE] >>,
            additionalContent |-> "After"] >>]

\* a section whose strings hold delimiter characters
SecQuoted ==
    [id |-> "", heading |-> "a ] b", content |-> "c } d", lists |-> <<>>,
     additionalContent |-> "", subsections |-> <<>>]

SectionChoices == {SecScenario, SecFull, SecQuoted}

\* templates in one of the two grammars (or holding both markers)
StructuredTemplates ==
    { t \in [form       : {"articleData", "macroCall", "articleDataThenMacroCall",
                           "macroCallThenArticleData"},
             title      : {"T"},
             introText  : {"", "A|B"},
             sections   : SeqsUpTo(SectionChoices, MaxSections),
             conclusion : {"", "Z"},
             damage     : {"none", "openArray", "openObject"},
             region     : {<<>>}] :
        t.damage # "none" => t.form \in {"articleData", "macroCall"} }

\* templates in neither grammar, with a fallback content region or without
FallbackTemplates ==
    [form : {"workarea"}, title : {""}, introText : {""}, sections : {<<>>},
     conclusion : {""}, damage : {"none"},
     region : SeqsUpTo(RegionPiece, MaxRegionPieces)]
    \cup
    [form : {"static"}, title : {""}, introText : {""}, sections : {<<>>},
     conclusion : {""}, damage : {"none"}, region : {<<>>}]

Templates == StructuredTemplates \cup FallbackTemplates

(***************************************************************************)
(* The engine: parseTwigFile, then buildRichTextContent                    *)
(***************************************************************************)

\* a TypeError was raised while the article was extracted
threw(result) ==
    \/ \E k \in DOMAIN result \cap {"title", "imageAlt", "introText", "conclusion"} :
          result[k] = TypeError
    \/ \E n \in 1..Len(arrayOf(result, "contentSections")) :
          LET sec == result.contentSections[n]
          IN  \/ TypeError \in {sec.id, sec.heading, sec.content, sec.additionalContent}
              \/ \E m \in 1..Len(sec.lists) : sec.lists[m].title = TypeError
              \/ \E m \in 1..Len(sec.subsections) :
                    TypeError \in {sec.subsections[m].subheading,
                                   sec.subsections[m].content,
                                   sec.subsections[m].additionalContent}

ScanIdle ==
    /\ scanKind = "none" /\ scanText = "" /\ scanOpen = "" /\ scanClose = ""
    /\ scanStart = 0 /\ scanState = [pos |-> 0, depth |-> 0] /\ scanSteps = 0
    /\ scanPc = "idle" /\ scanResult = 0

ExtractIdle ==
    /\ xText = "" /\ xKey = "" /\ xCase = <<>> /\ xOut = "" /\ xPc = "idle"

EngineIdle ==
    /\ template = <<>> /\ twigContent = "" /\ pc = "idle" /\ strategy = "none"
    /\ article = EmptyRecord /\ richText = <<>>

SectionsIdle ==
    /\ csText = "" /\ csCase = <<>> /\ csOut = <<>> /\ csPc = "idle"

InlineIdle ==
    /\ inText = "" /\ inCase = <<>> /\ inOut = <<>> /\ inPc = "idle"

SessionIdle == session = <<>>

WorkflowIdle == posts = <<>> /\ requests = <<>>

ServerIdle == WorkflowIdle

RunIdle ==
    /\ runScript = "none" /\ runEnv = <<>> /\ runPc = "idle" /\ runDone = 0
    /\ runSent = <<>> /\ runStats = <<>> /\ runMap = {}

RetryIdle ==
    /\ retryFile = "" /\ retryPc = "idle" /\ retryAttempt = 0 /\ retryLog = <<>>
    /\ retryWaits = <<>> /\ retryResult = <<>>

HooksIdle == hookEnv = <<>> /\ hookPosts = <<>> /\ hookOps = <<>> /\ hookSent = <<>>

ImportIdle ==
    /\ impCase = <<>> /\ impTable = <<>> /\ impUploads = {} /\ impExisting = {}
    /\ impQueue = <<>> /\ impPc = "idle" /\ impRun = 0 /\ impCounts = <<>>
    /\ impLog = <<>>

ToolsIdle == RetryIdle /\ HooksIdle /\ ImportIdle

RestIdle == SessionIdle /\ ServerIdle /\ RunIdle /\ ToolsIdle

ParsersIdle == ScanIdle /\ ExtractIdle /\ SectionsIdle /\ InlineIdle

\* every part but one is at rest
OnlyEngine == ParsersIdle /\ RestIdle
OnlyScan == EngineIdle /\ ExtractIdle /\ SectionsIdle /\ InlineIdle /\ RestIdle
OnlyExtract == EngineIdle /\ ScanIdle /\ SectionsIdle /\ InlineIdle /\ RestIdle
OnlySections == EngineIdle /\ ScanIdle /\ ExtractIdle /\ InlineIdle /\ RestIdle
OnlyInline == EngineIdle /\ ScanIdle /\ ExtractIdle /\ SectionsIdle /\ RestIdle
OnlyWorkflow == EngineIdle /\ ParsersIdle /\ SessionIdle /\ RunIdle /\ ToolsIdle
NoTools == EngineIdle /\ ParsersIdle /\ SessionIdle /\ ServerIdle /\ RunIdle
OnlyRetry == NoTools /\ HooksIdle /\ ImportIdle
OnlyHooks == NoTools /\ RetryIdle /\ ImportIdle
OnlyImport == NoTools /\ RetryIdle /\ HooksIdle

Init ==
    /\ template \in Templates
    /\ twigContent = RenderTemplate(template)
    /\ pc = "start"
    /\ strategy = "none"
    /\ article = EmptyRecord
    /\ richText = <<>>
    /\ OnlyEngine

\* const parsed = parseTwigFile(filePath)
ParseTwigFile ==
    /\ pc = "start"
    /\ strategy' = dispatch(twigContent)
    /\ \E result \in {parseTwigFile(twigContent)} :
          IF threw(result)
          THEN pc' = "threw" /\ article' = article
          ELSE pc' = "parsed" /\ article' = result
    /\ UNCHANGED <<template, twigContent, richText, notEngine>>

\* const content = buildRichTextContent(parsed)
BuildRichTextContent ==
    /\ pc = "parsed"
    /\ richText' = buildRichTextContent(article)
    /\ pc' = "built"
    /\ UNCHANGED <<template, twigContent, strategy, article, notEngine>>

Next == ParseTwigFile \/ BuildRichTextContent

Spec == Init /\ [][Next]_vars

(***************************************************************************)
(* Properties of the engine                                                *)
(***************************************************************************)

Plain(text) == << TextRun(text, FALSE, FALSE) >>

ListBlock(format, items) ==
    [type |-> "list", format |-> format,
     children |-> [n \in 1..Len(items) |->
                      [type |-> "list-item", children |-> Plain(items[n])]]]

\* the source of the end-to-end scenario of the named-object form
ScenarioTemplate ==
    [form |-> "articleData", title |-> "T", introText |-> "A|B",
     sections |-> << SecScenario >>, conclusion |-> "Z", damage |-> "none",
     region |-> <<>>]

\* C2: parsing and assembling the scenario source (title 'T', intro_text
\* 'A|B', one section with heading 'H', content 'C' and the ordered list 'L'
\* of the items 'x' and 'y', conclusion 'Z') yields exactly seven blocks:
\* Paragraph(A), Paragraph(B), Heading 2 (H), Paragraph(C), Paragraph(bold L),
\* the ordered List [x, y], Paragraph(Z).
C2_ScenarioYieldsSevenBlocks ==
    (template = ScenarioTemplate /\ pc = "built")
    => richText = << Paragraph(Plain("A")), Paragraph(Plain("B")), Heading(2, "H"),
                     Paragraph(Plain("C")),
                     Paragraph(<< TextRun("L", TRUE, FALSE) >>),
                     ListBlock("ordered", <<"x", "y">>),
                     Paragraph(Plain("Z")) >>

\* the text of a content region with its markup directives taken out
VisibleText(region) == Join([n \in 1..Len(region) |-> region[n].text], Len(region), "")

\* the fields only the two structured strategies set
StructuredFields ==
    {"title", "imagePath", "imageAlt", "introText", "tocItems", "contentSections",
     "conclusion"}

ExpectedStrategy(t) ==
    IF t.form \in {"articleData", "articleDataThenMacroCall", "macroCallThenArticleData"}
    THEN "parseArticleDataPattern"
    ELSE IF t.form = "macroCall" THEN "parseMacroCallPattern"
    ELSE "extractFallbackContent"

\* C4: parseTwigFile runs exactly one strategy: the named-object strategy
\* whenever its marker occurs (also when the positional-call marker occurs
\* too), the positional-call strategy when only its marker occurs, the
\* raw-fallback extractor when neither occurs; rawHtml is set only on the
\* raw-fallback path, never together with a field of a structured strategy.
C4_OneStrategy ==
    pc \in {"parsed", "built"}
    => /\ strategy = ExpectedStrategy(template)
       /\ strategy = "parseArticleDataPattern"
            => /\ {"title", "introText", "tocItems", "contentSections", "conclusion"}
                    \subseteq DOMAIN article
               /\ article.title = template.title
               /\ "rawHtml" \notin DOMAIN article
       /\ strategy = "parseMacroCallPattern"
            => /\ {"title", "imagePath", "tocItems", "contentSections"}
                    \subseteq DOMAIN article
               /\ article.title = template.title
               /\ "rawHtml" \notin DOMAIN article
       /\ strategy = "extractFallbackContent"
            => DOMAIN article \cap StructuredFields = {}
       /\ "rawHtml" \in DOMAIN article => strategy = "extractFallbackContent"

\* a template holding both markers, the positional call first, was parsed by
\* the named-object strategy
C4_Witness ==
    /\ template.form = "macroCallThenArticleData"
    /\ pc = "parsed"
    /\ strategy = "parseArticleDataPattern"

\* C5: for a positional-call source whose seventh argument is a non-empty
\* conclusion string, the article's conclusion equals that string and the
\* block sequence ends with the conclusion's paragraph, as for a named-object
\* source with the same conclusion.
C5_MacroCallConclusion ==
    (/\ template.form \in {"macroCall", "articleData"}
     /\ template.damage = "none"
     /\ template.conclusion # ""
     /\ pc \in {"parsed", "built"})
    => /\ "conclusion" \in DOMAIN article
       /\ article.conclusion = template.conclusion
       /\ pc = "built" =>
            /\ Len(richText) > 0
            /\ richText[Len(richText)] = Paragraph(Plain(template.conclusion))

\* C7: when the content-sections array of a named-object source has no
\* matching close before the end of the input, the extraction of that field
\* yields no sections instead of content taken from the unterminated span,
\* and the rest of the source (title, intro text) is still extracted.
C7_UnterminatedArrayYieldsNothing ==
    (/\ template.form = "articleData"
     /\ template.damage = "openArray"
     /\ pc \in {"parsed", "built"})
    => /\ article.contentSections = <<>>
       /\ article.title = template.title
       /\ article.introText = template.introText

\* C9: for any source text, however malformed or partial (missing keys, no
\* image call, unterminated delimiters, empty arrays), parsing followed by
\* block assembly raises no exception; the driver reaches "built".
C9_NoException == pc # "threw"

\* a template without its closing brace or parenthesis, an empty sections
\* array and no intro text went through both steps
C9_Witness ==
    /\ pc = "built"
    /\ template.damage = "openObject"
    /\ template.sections = <<>>
    /\ template.introText = ""

(***************************************************************************)
(* The block assembler on its own: buildRichTextContent of any article     *)
(***************************************************************************)

\* most sections of an article handed to the assembler
MaxArticleSections == 2

BSecA ==
    [id |-> "a", heading |-> "HA", content |-> "A1| |A2", additionalContent |-> "A3",
     lists |-> << [title |-> "LA", ordered |-> TRUE, items |-> <<"ia1", "ia2">>],
                  [title |-> "", ordered |-> FALSE, items |-> <<"ib1">>] >>,
     subsections |->
        << [subheading |-> "SA", content |-> "S1", additionalContent |-> "S2|S3",
            lists |-> << [title |-> "LS", ordered |-> FALSE, items |-> <<"is1">>] >>],
           [subheading |-> "", content |-> "T1", additionalContent |-> "",
            lists |-> <<>>] >>]

\* a continuation block: no id, no heading
BSecB ==
    [id |-> "", heading |-> "", content |-> " B1 ", additionalContent |-> "",
     lists |-> <<>>, subsections |-> <<>>]

BSecC ==
    [id |-> "c", heading |-> "HC", content |-> "", additionalContent |-> "C3|",
     lists |-> << [title |-> "LC", ordered |-> FALSE, items |-> <<>>] >>,
     subsections |->
        << [subheading |-> "SC", content |-> "", additionalContent |-> "",
            lists |-> << [title |-> "", ordered |-> TRUE, items |-> <<"ic1">>] >>] >>]

\* the records with the field k set to a value of S, or without the field
Optional(k, S) == {EmptyRecord} \cup {(k :> v) : v \in S}

ParsedArticles ==
    { a @@ b @@ c @@ d :
        a \in Optional("introText", {"", "I1|I2", "| I3 ||"}),
        b \in Optional("contentSections",
                       SeqsUpTo({BSecA, BSecB, BSecC}, MaxArticleSections)),
        c \in Optional("conclusion", {"", "Z1|Z2"}),
        d \in Optional("rawHtml", {"raw text"}) }

InitBuild ==
    /\ template = <<>>
    /\ twigContent = ""
    /\ pc = "parsed"
    /\ strategy = "none"
    /\ article \in ParsedArticles
    /\ richText = <<>>
    /\ OnlyEngine

NextBuild == BuildRichTextContent

SpecBuild == InitBuild /\ [][NextBuild]_vars

\* f[1] \o ... \o f[n]
RECURSIVE Flat(_, _)
Flat(f, n) == IF n = 0 THEN <<>> ELSE Flat(f, n - 1) \o f[n]

\* one Paragraph per non-blank segment of the field k of o, in order
Paragraphs(o, k) ==
    IF k \notin DOMAIN o THEN <<>>
    ELSE LET segs == splitPipe(o[k], 0)
         IN  Flat([n \in 1..Len(segs) |->
                      IF trim(segs[n]) = "" THEN <<>>
                      ELSE << Paragraph(Plain(trim(segs[n]))) >>],
                  Len(segs))

\* per list: the optional bold title paragraph, immediately followed by the list
ListsInOrder(ls) ==
    Flat([n \in 1..Len(ls) |->
             (IF ls[n].title = "" THEN <<>>
              ELSE << Paragraph(<< TextRun(ls[n].title, TRUE, FALSE) >>) >>)
             \o << ListBlock(IF ls[n].ordered THEN "ordered" ELSE "unordered",
                             ls[n].items) >>],
         Len(ls))

SubsectionInOrder(sub) ==
    (IF sub.subheading = "" THEN <<>> ELSE << Heading(3, sub.subheading) >>)
    \o Paragraphs(sub, "content") \o ListsInOrder(sub.lists)
    \o Paragraphs(sub, "additionalContent")

SectionInOrder(sec) ==
    (IF sec.heading = "" THEN <<>> ELSE << Heading(2, sec.heading) >>)
    \o Paragraphs(sec, "content") \o ListsInOrder(sec.lists)
    \o Paragraphs(sec, "additionalContent")
    \o Flat([n \in 1..Len(sec.subsections) |-> SubsectionInOrder(sec.subsections[n])],
            Len(sec.subsections))

\* the blocks of an article in document reading order
ReadingOrder(a) ==
    Paragraphs(a, "introText")
    \o Flat([n \in 1..Len(arrayOf(a, "contentSections")) |->
                SectionInOrder(a.contentSections[n])],
            Len(arrayOf(a, "contentSections")))
    \o Paragraphs(a, "conclusion")

\* C1: buildRichTextContent emits the blocks in document reading order: the
\* intro paragraphs; per section its level-2 heading (if not empty), content
\* paragraphs, per list the optional bold title paragraph immediately followed
\* by the list, additional-content paragraphs, then each subsection (level-3
\* heading, content, lists, additional content) completely before the next;
\* finally the conclusion paragraphs.  (Only an article that yields no such
\* block gets the single fallback paragraph of its rawHtml instead.)
C1_ReadingOrder ==
    pc = "built"
    => \/ richText = ReadingOrder(article)
       \/ /\ ReadingOrder(article) = <<>>
          /\ "rawHtml" \in DOMAIN article
          /\ Len(richText) = 1

\* an article with intro, two sections (lists, subsections) and a conclusion
\* was assembled
C1_Witness ==
    /\ pc = "built"
    /\ "introText" \in DOMAIN article /\ article.introText = "I1|I2"
    /\ "contentSections" \in DOMAIN article
    /\ article.contentSections = << BSecA, BSecC >>
    /\ "conclusion" \in DOMAIN article /\ article.conclusion = "Z1|Z2"
    /\ Len(richText) > 10

(***************************************************************************)
(* The scanning loops, one iteration at a time                             *)
(***************************************************************************)

\* most characters after the opening delimiter of a scanned text
MaxScanLen == 4

\* most string arguments in front of the array findContentSectionsEnd looks for
MaxScanArgs == 4

\* most characters after those string arguments
MaxTailLen == 2

\* the strings of at most n characters of A
RECURSIVE Strs(_, _)
Strs(A, n) ==
    IF n = 0 THEN {""} ELSE {""} \cup {c \o t : c \in A, t \in Strs(A, n - 1)}

\* braceDepth / bracketDepth / parenDepth scans
DelimiterPairs == { <<"{", "}">>, <<"[", "]">>, <<"(", ")">> }

\* macro arguments: quoted strings (one holding an escaped quote), then a tail
MacroArgTexts ==
    { Join(args, Len(args), ",") \o tail :
        args \in SeqsUpTo({"'a'", "'\\''"}, MaxScanArgs),
        tail \in Strs({"[", "]", ","}, MaxTailLen) }

InitScan ==
    /\ OnlyScan
    /\ scanSteps = 0
    /\ \/ \E d \in DelimiterPairs, lead \in {"", "x"} :
             \E rest \in Strs({d[1], d[2], "'", "\\"}, MaxScanLen) :
                /\ scanKind = "match"
                /\ scanText = lead \o d[1] \o rest
                /\ scanOpen = d[1] /\ scanClose = d[2]
                /\ scanStart = Len(lead)
                /\ scanState = [pos |-> Len(lead) + 1, depth |-> 1]
                /\ scanPc = "loop"
       \/ /\ scanKind = "find"
          /\ scanText \in MacroArgTexts
          /\ scanOpen = "[" /\ scanClose = "]"
          /\ scanStart = 0
          /\ scanState = [pos |-> 0, depth |-> 0, inString |-> FALSE, stringCount |-> 0]
          /\ scanPc = "strings"
       \/ /\ scanKind = "split"
          /\ scanText \in Strs({"{", "}", "a"}, MaxScanLen)
          /\ scanOpen = "{" /\ scanClose = "}"
          /\ scanStart = 0
          /\ scanState = [pos |-> 0, depth |-> 0, start |-> -1, objects |-> <<>>]
          /\ scanPc = "split"
    /\ scanResult = (IF scanKind = "split" THEN <<>> ELSE 0)

\* No loop of the source runs more iterations than the text has characters;
\* the guard on scanSteps keeps the state space finite for a loop that would.
StepsLeft == scanSteps <= Len(scanText)

scanFixed == <<notScan, scanKind, scanText, scanOpen, scanClose>>

\* while (i < text.length && stringCount < 4) { ... i++; }
StringsIterate ==
    /\ scanPc = "strings" /\ stringsGuard(scanText, scanState) /\ StepsLeft
    /\ scanState' = stringsStep(scanText, scanState)
    /\ scanSteps' = scanSteps + 1
    /\ UNCHANGED <<scanFixed, scanStart, scanPc, scanResult>>

StringsExit ==
    /\ scanPc = "strings" /\ ~stringsGuard(scanText, scanState)
    /\ scanPc' = "seek"
    /\ UNCHANGED <<scanFixed, scanStart, scanState, scanSteps, scanResult>>

\* while (i < text.length && text[i] !== '[') i++;
SeekIterate ==
    /\ scanPc = "seek" /\ StepsLeft
    /\ scanState.pos < Len(scanText) /\ charAt(scanText, scanState.pos) # "["
    /\ scanState' = [scanState EXCEPT !.pos = scanState.pos + 1]
    /\ scanSteps' = scanSteps + 1
    /\ UNCHANGED <<scanFixed, scanStart, scanPc, scanResult>>

\* if (i >= text.length) return -1;  bracketDepth = 1;  i++;
SeekExit ==
    /\ scanPc = "seek"
    /\ ~(scanState.pos < Len(scanText) /\ charAt(scanText, scanState.pos) # "[")
    /\ IF scanState.pos >= Len(scanText)
       THEN /\ scanPc' = "done" /\ scanResult' = -1
            /\ UNCHANGED <<scanStart, scanState>>
       ELSE /\ scanPc' = "loop"
            /\ scanStart' = scanState.pos
            /\ scanState' = [scanState EXCEPT !.pos = scanState.pos + 1, !.depth = 1]
            /\ UNCHANGED scanResult
    /\ UNCHANGED <<scanFixed, scanSteps>>

\* while (pos < text.length && depth > 0) { ... pos++; }
ScanIterate ==
    /\ scanPc = "loop" /\ scanGuard(scanText, scanState) /\ StepsLeft
    /\ scanState' = scanStep(scanText, scanOpen, scanClose, scanState)
    /\ scanSteps' = scanSteps + 1
    /\ UNCHANGED <<scanFixed, scanStart, scanPc, scanResult>>

ScanExit ==
    /\ scanPc = "loop" /\ ~scanGuard(scanText, scanState)
    /\ scanPc' = "done"
    /\ scanResult' = scanState.pos
    /\ UNCHANGED <<scanFixed, scanStart, scanState, scanSteps>>

\* for (let i = 0; i < str.length; i++) { ... }
SplitIterate ==
    /\ scanPc = "split" /\ scanState.pos < Len(scanText) /\ StepsLeft
    /\ scanState' = splitStep(scanText, scanState)
    /\ scanSteps' = scanSteps + 1
    /\ UNCHANGED <<scanFixed, scanStart, scanPc, scanResult>>

SplitExit ==
    /\ scanPc = "split" /\ ~(scanState.pos < Len(scanText))
    /\ scanPc' = "done"
    /\ scanResult' = scanState.objects
    /\ UNCHANGED <<scanFixed, scanStart, scanState, scanSteps>>

NextScan ==
    \/ StringsIterate \/ StringsExit
    \/ SeekIterate \/ SeekExit
    \/ ScanIterate \/ ScanExit
    \/ SplitIterate \/ SplitExit

\* a loop that can run an iteration or leave does so
SpecScan == InitScan /\ [][NextScan]_vars /\ WF_vars(NextScan)

\* the loops run step by step end with what the operators used by the
\* extractors compute
ScanAgrees ==
    scanPc = "done"
    => CASE scanKind = "match" ->
              scanResult = matchDelimiter(scanText, scanOpen, scanClose, scanStart)
         [] scanKind = "find" -> scanResult = findContentSectionsEnd(scanText)
         [] scanKind = "split" -> scanResult = splitTopLevelObjects(scanText)

\* the quoting state in front of position k of a text read the quote-aware
\* way: inside a single-quoted string or not, and whether the character at
\* k is escaped by a backslash
RECURSIVE QuoteState(_, _)
QuoteState(text, k) ==
    IF k = 0 THEN [inside |-> FALSE, escaped |-> FALSE]
    ELSE LET q == QuoteState(text, k - 1)
             c == charAt(text, k - 1)
         IN  IF q.escaped THEN [inside |-> q.inside, escaped |-> FALSE]
             ELSE IF q.inside /\ c = "\\" THEN [inside |-> TRUE, escaped |-> TRUE]
             ELSE IF c = "'" THEN [inside |-> ~q.inside, escaped |-> FALSE]
             ELSE q

\* occurrences of the token c in [a, b) outside quoted regions
TokensOutside(text, c, a, b) ==
    Cardinality({k \in a..(b - 1) : charAt(text, k) = c /\ ~QuoteState(text, k).inside})

\* every string is closed, every closing token outside a string has its
\* opening token, and every opening token its closing one
Balanced(text, open, close) ==
    /\ ~QuoteState(text, Len(text)).inside
    /\ \A e \in 0..Len(text) :
          TokensOutside(text, open, 0, e) >= TokensOutside(text, close, 0, e)
    /\ TokensOutside(text, open, 0, Len(text)) = TokensOutside(text, close, 0, Len(text))

\* C6: delimiter characters inside a single-quoted string are not counted
\* when the closing delimiter of an opening '{', '[' or '(' is located: for a
\* text with balanced delimiters the span from the opening delimiter to the
\* returned position holds as many opening as closing tokens outside quoted
\* regions.
C6_QuotedDelimitersNotCounted ==
    (/\ scanKind = "match"
     /\ scanPc = "done"
     /\ Balanced(scanText, scanOpen, scanClose))
    => TokensOutside(scanText, scanOpen, scanStart, scanResult)
       = TokensOutside(scanText, scanClose, scanStart, scanResult)

\* pos++ / i++ of the iteration that was run
ScanAdvances ==
    scanSteps' # scanSteps => scanState'.pos = scanState.pos + 1

\* C8: every scan advances its position by one per step, never passes the end
\* of the input nor runs more steps than the input has characters, and comes
\* to its end, also on a text whose object, array or call is unterminated.
C8_ScansTerminate ==
    /\ [][ScanAdvances]_vars
    /\ [](scanState.pos <= Len(scanText) /\ scanSteps <= Len(scanText))
    /\ <>(scanPc = "done")

\* the scan of an unterminated text ended at the end of the input, having
\* run over every character after the opening delimiter
C8_Witness ==
    /\ scanKind = "match"
    /\ scanPc = "done"
    /\ scanState.depth > 0
    /\ scanResult = Len(scanText)
    /\ scanSteps = MaxScanLen

(***************************************************************************)
(* extractStringValue on its own                                           *)
(***************************************************************************)

\* most pieces a value is written from
MaxValuePieces == 3

\* what a value is written from: plain text, an escaped quote, an escaped
\* newline marker, a line break
ValuePieces == {"don", "t", "\\'", "\\n", "\n"}

\* what a piece stands for
Decoded(piece) ==
    IF piece = "\\'" THEN "'" ELSE IF piece = "\\n" THEN "\n" ELSE piece

ExtractCases ==
    [value   : SeqsUpTo(ValuePieces, MaxValuePieces),
     present : BOOLEAN,           \* the span holds a pair of the key
     spacing : {"", " \n  "},     \* around the colon of that pair
     before  : BOOLEAN,           \* a pair of another key comes first
     again   : BOOLEAN]           \* a second pair of the key follows

RenderSpan(c, key) ==
    "{ " \o (IF c.before THEN "'alt': 'o\\'k', " ELSE "")
         \o (IF c.present
             THEN Quoted(key) \o c.spacing \o ":" \o c.spacing
                  \o Quoted(Join(c.value, Len(c.value), "")) \o ", "
             ELSE "")
         \o (IF c.present /\ c.again THEN Quoted(key) \o ": 'later', " ELSE "")
         \o "'href': '#s1' }"

InitExtract ==
    /\ OnlyExtract
    /\ xCase \in ExtractCases
    /\ xKey = "title"
    /\ xText = RenderSpan(xCase, xKey)
    /\ xOut = ""
    /\ xPc = "call"

\* extractStringValue(text, key)
ExtractStringValue ==
    /\ xPc = "call"
    /\ xOut' = extractStringValue(xText, xKey)
    /\ xPc' = "returned"
    /\ UNCHANGED <<notExtract, xText, xKey, xCase>>

NextExtract == ExtractStringValue

SpecExtract == InitExtract /\ [][NextExtract]_vars

\* C10: extractStringValue returns the value of the first 'key': 'value'
\* pair of the span with every escaped quote replaced by a quote and every
\* escaped newline marker by a newline; an escaped quote inside the value
\* does not end the value; it returns the empty string, without failing,
\* when the key is absent.
C10_ExtractStringValue ==
    xPc = "returned"
    => xOut = IF xCase.present
              THEN Join([n \in 1..Len(xCase.value) |-> Decoded(xCase.value[n])],
                        Len(xCase.value), "")
              ELSE ""

\* the value written don\'t, in front of a second pair of the key, was
\* returned as don't
C10_Witness ==
    /\ xPc = "returned"
    /\ xCase.present /\ xCase.again
    /\ xCase.value = <<"don", "\\'", "t">>
    /\ xOut = "don't"

(***************************************************************************)
(* Paragraph segmentation: the assembler on fields written from segments   *)
(***************************************************************************)

\* most segments a paragraph-segmented field is written from
MaxSegments == 3

\* what a segment of a field holds: text, nothing, blanks, text between
\* blanks, a bold element with text and one without
SegmentChoices == {"A", "B", "", " ", " C ", "<strong>D</strong>", "<strong></strong>"}

\* the paragraph-segmented fields of an article
SegmentedFields == {"introText", "conclusion", "content", "additionalContent", "subContent"}

\* the article whose field where holds text (a field of a section or of a
\* subsection sits in the only section of the article)
ArticleWithField(where, text) ==
    CASE where = "introText" -> [introText |-> text]
      [] where = "conclusion" -> [conclusion |-> text]
      [] where = "content" ->
            [contentSections |->
                << [id |-> "", heading |-> "", content |-> text,
                    additionalContent |-> "", lists |-> <<>>, subsections |-> <<>>] >>]
      [] where = "additionalContent" ->
            [contentSections |->
                << [id |-> "", heading |-> "", content |-> "",
                    additionalContent |-> text, lists |-> <<>>, subsections |-> <<>>] >>]
      [] OTHER ->
            [contentSections |->
                << [id |-> "", heading |-> "", content |-> "",
                    additionalContent |-> "", lists |-> <<>>,
                    subsections |->
                       << [subheading |-> "", content |-> text,
                           additionalContent |-> "", lists |-> <<>>] >>] >>]

InitSegments ==
    /\ template \in [where : SegmentedFields,
                     segments : SeqsUpTo(SegmentChoices, MaxSegments) \ {<<>>}]
    /\ twigContent = Join(template.segments, Len(template.segments), "|")
    /\ pc = "parsed"
    /\ strategy = "none"
    /\ article = ArticleWithField(template.where, twigContent)
    /\ richText = <<>>
    /\ OnlyEngine

SpecSegments == InitSegments /\ [][NextBuild]_vars

\* the text of a block: the texts of its runs, one after the other
RECURSIVE RunsText(_)
RunsText(children) ==
    IF children = <<>> THEN "" ELSE Head(children).text \o RunsText(Tail(children))

\* C11: no Paragraph block of the final block sequence has empty text (blank
\* segments of a field split on '|' are dropped), and the field value 'A|B|'
\* yields exactly the two Paragraph blocks A and B.
C11_NoEmptyParagraph ==
    pc = "built"
    => /\ \A n \in 1..Len(richText) :
             richText[n].type = "paragraph" => RunsText(richText[n].children) # ""
       /\ template.segments = <<"A", "B", "">>
             => richText = << Paragraph(Plain("A")), Paragraph(Plain("B")) >>

\* the blank segments of the field were dropped: one Paragraph per segment
\* that is not blank, the trailing empty segment of 'A|B|' among the dropped
BlankSegmentsDropped ==
    pc = "built"
    => /\ Len(richText)
            = Cardinality({n \in 1..Len(template.segments) :
                              trim(template.segments[n]) # ""})
       /\ template.segments = <<"A", "B", "">>
             => richText = << Paragraph(Plain("A")), Paragraph(Plain("B")) >>

(***************************************************************************)
(* Table of contents: the two strategies on sources with TOC objects       *)
(***************************************************************************)

\* most objects of a table-of-contents array
MaxTocItems == 2

\* the entries a table of contents is written from (an href that is an
\* anchor, and one that is not)
TocEntries ==
    { [href |-> "#s1", title |-> "One"],
      [href |-> "#s2", title |-> "Two"],
      [href |-> "/page", title |-> "Page"] }

\* a table-of-contents object in one of the two field orders
RenderTocObject(e, order) ==
    IF order = "titleHref"
    THEN "{'title': " \o Quoted(e.title) \o ", 'href': " \o Quoted(e.href) \o "}"
    ELSE "{'href': " \o Quoted(e.href) \o ", 'title': " \o Quoted(e.title) \o "}"

RenderToc(t) ==
    "[ " \o Join([n \in 1..Len(t.toc) |-> RenderTocObject(t.toc[n], t.order)],
                 Len(t.toc), ", ") \o " ]"

\* the content-sections array of a source with a table of contents
RenderTocSections(t) ==
    IF t.withSection THEN "[ {'heading': 'H', 'content': 'C'} ]" ELSE "[ ]"

\* a source of either form whose table of contents holds the objects of t.toc
RenderTocTemplate(t) ==
    TemplateHead
    \o (IF t.form = "articleData"
        THEN "{% set article_data = { 'title': 'T', 'intro_text': 'Intro', 'toc_items': "
             \o RenderToc(t) \o ", 'content_sections': " \o RenderTocSections(t)
             \o ", 'conclusion': 'Z' } %}"
        ELSE "{{ blog_macros.blog_content( 'T', asset('img/a.png'), 'alt text', 'Intro', "
             \o RenderTocSections(t) \o ", " \o RenderToc(t) \o ", null ) }}")

TocTemplates ==
    [form        : {"articleData", "macroCall"},
     order       : {"titleHref", "hrefTitle"},
     toc         : SeqsUpTo(TocEntries, MaxTocItems),
     withSection : BOOLEAN]

InitToc ==
    /\ template \in TocTemplates
    /\ twigContent = RenderTocTemplate(template)
    /\ pc = "start"
    /\ strategy = "none"
    /\ article = EmptyRecord
    /\ richText = <<>>
    /\ OnlyEngine

NextToc == ParseTwigFile

SpecToc == InitToc /\ [][NextToc]_vars

\* C12: in the named-object form and in the positional-call form, a source
\* whose table-of-contents objects are all written {title, href} or all
\* written {href, title} yields tocItems with one entry per object, in source
\* order, href and title in the right fields.
C12_TocBothOrderings ==
    pc = "parsed" => article.tocItems = template.toc

(***************************************************************************)
(* parseContentSections on its own: array bodies of section objects        *)
(***************************************************************************)

\* most items of the items array of a section case
MaxItems == 2

\* the quoted strings an items array is written from: what the source holds
\* and the string it stands for
ItemChoices ==
    { [src |-> "abc",    val |-> "abc"],
      [src |-> "true",   val |-> "true"],
      [src |-> "ab",     val |-> "ab"],
      [src |-> "it\\'s", val |-> "it's"] }

\* 'items': ['...','...']
RenderItems(items) ==
    "'items': [" \o Join([n \in 1..Len(items) |-> Quoted(items[n].src)], Len(items), ",")
    \o "]"

\* 'lists': [{'title': 'L', 'items': [...], 'ordered': true}]
RenderListsOf(items) ==
    "'lists': [{'title': 'L', " \o RenderItems(items) \o ", 'ordered': true}]"

\* the first object of the array body: a section with or without heading whose
\* items array (if it has items) is in a structured list of the section, in a
\* structured list of its subsection, or bare in its subsection
RenderSectionCase(c) ==
    RenderFields(
        Pair("heading", c.heading)
        \o (IF c.items = <<>> THEN <<>>
            ELSE IF c.place = "section" THEN << RenderListsOf(c.items) >>
            ELSE IF c.place = "subsection"
                 THEN << "'subsections': [{'subheading': 'S', " \o RenderListsOf(c.items)
                         \o "}]" >>
            ELSE << "'subsections': [{'subheading': 'S', " \o RenderItems(c.items)
                    \o "}]" >>))

\* the hash content holding the array: the first object and, after it, no
\* object, an object without fields, or a section with content only
RenderSectionsCase(c) ==
    "{ 'content_sections': [ " \o RenderSectionCase(c)
    \o (CASE c.second = "empty" -> ", {}"
          [] c.second = "plain" -> ", {'content': 'C'}"
          [] OTHER -> "")
    \o " ] }"

SectionsCases ==
    [heading : {"", "H"},
     place   : {"section", "subsection", "legacy"},
     items   : SeqsUpTo(ItemChoices, MaxItems),
     second  : {"none", "empty", "plain"}]

InitSections ==
    /\ OnlySections
    /\ csCase \in SectionsCases
    /\ csText = RenderSectionsCase(csCase)
    /\ csOut = <<>>
    /\ csPc = "call"

\* const sections = parseContentSections(hashContent)
ParseContentSections ==
    /\ csPc = "call"
    /\ csOut' = parseContentSections(csText)
    /\ csPc' = "returned"
    /\ UNCHANGED <<notSections, csText, csCase>>

NextSections == ParseContentSections

SpecSections == InitSections /\ [][NextSections]_vars

\* a section in which every field is absent or empty
EmptySection(sec) ==
    /\ sec.id = "" /\ sec.heading = "" /\ sec.content = "" /\ sec.additionalContent = ""
    /\ sec.lists = <<>> /\ sec.subsections = <<>>
    /\ "imageSrc" \notin DOMAIN sec

\* C13: the section extractor never emits a Section in which every field is
\* absent or empty (no id, no heading, no content, no additional content, no
\* lists, no subsections, no image), whatever the array body.
C13_NoEmptySection ==
    csPc = "returned" => \A n \in 1..Len(csOut) : ~EmptySection(csOut[n])

\* a is b with some of its elements left out
RECURSIVE IsSubseq(_, _)
IsSubseq(a, b) ==
    IF a = <<>> THEN TRUE
    ELSE IF b = <<>> THEN FALSE
    ELSE IF Head(a) = Head(b) THEN IsSubseq(Tail(a), Tail(b))
    ELSE IsSubseq(a, Tail(b))

\* every ContentList of the extracted sections and of their subsections
ExtractedLists(sections) ==
    UNION { {sections[n].lists[k] : k \in 1..Len(sections[n].lists)}
            \cup UNION { {sections[n].subsections[m].lists[k] :
                            k \in 1..Len(sections[n].subsections[m].lists)} :
                         m \in 1..Len(sections[n].subsections) } :
            n \in 1..Len(sections) }

\* C14: every item of every extracted ContentList, from a structured lists
\* field of a section or subsection or from the legacy bare-items path, is a
\* quoted string of the items array, in source order, longer than two
\* characters and not the boolean token 'true' or 'false'.
C14_ListItemsFiltered ==
    csPc = "returned"
    => \A list \in ExtractedLists(csOut) :
          /\ IsSubseq(list.items, [n \in 1..Len(csCase.items) |-> csCase.items[n].val])
          /\ \A k \in 1..Len(list.items) :
                Len(list.items[k]) > 2 /\ list.items[k] \notin {"true", "false"}

(***************************************************************************)
(* parseInlineHtml on its own: fragments written from tags and text        *)
(***************************************************************************)

\* most pieces a fragment is written from
MaxInlinePieces == 3

\* the opening tags of an anchor: the link target first, or after another
\* attribute
AnchorOpens == {"<a href=\"u\">", "<a class=\"c\" href=\"u\">"}

\* the tags of the fragments
InlineTagTexts == AnchorOpens \cup {"</a>", "<b>", "</b>", "<i>", "</i>"}

\* the pieces a fragment is written from: text, a blank, single tags, a bold
\* and an italic element
InlinePieces == InlineTagTexts \cup {"x", " ", "<b>y</b>", "<i>z</i>"}

InitInline ==
    /\ OnlyInline
    /\ inCase \in SeqsUpTo(InlinePieces, MaxInlinePieces)
    /\ inText = Join(inCase, Len(inCase), "")
    /\ inOut = <<>>
    /\ inPc = "call"

\* children: parseInlineHtml(text)
ParseInlineHtml ==
    /\ inPc = "call"
    /\ inOut' = parseInlineHtml(inText)
    /\ inPc' = "returned"
    /\ UNCHANGED <<notInline, inText, inCase>>

NextInline == ParseInlineHtml

SpecInline == InitInline /\ [][NextInline]_vars

\* s without the occurrences of the tags of the sequence tags, taken out in
\* that order
RECURSIVE WithoutTags(_, _)
WithoutTags(s, tags) ==
    IF tags = <<>> THEN s
    ELSE WithoutTags(replaceLit(s, Head(tags), "", 0), Tail(tags))

AllTags ==
    <<"<a href=\"u\">", "<a class=\"c\" href=\"u\">", "</a>", "<b>", "</b>", "<i>", "</i>">>

\* the text of a fragment that lies outside its tags
TextOutsideTags(frag) == WithoutTags(frag, AllTags)

\* C15: for every text fragment parseInlineHtml returns at least one run, and
\* every character of the fragment outside a tag is in the text of some run:
\* no visible text (whitespace-only text between two tags and the text of an
\* anchor included) is discarded.
C15_NoTextDiscarded ==
    inPc = "returned"
    => /\ Len(inOut) >= 1
       /\ TextOutsideTags(RunsText(inOut)) = TextOutsideTags(inText)

\* what the inner part of an anchor element is written from: text, a blank,
\* bold tags, a bold element
AnchorInnerPieces == {"x", " ", "<b>", "</b>", "<b>y</b>"}

\* the run of an anchor element with that inner part: the inner text without
\* the bold tags, bold when an opening bold tag is in the inner part
AnchorRun(inner) ==
    TextRun(WithoutTags(Join(inner, Len(inner), ""), <<"<b>", "</b>">>),
            \E n \in 1..Len(inner) : inner[n] \in {"<b>", "<b>y</b>"},
            FALSE)

\* C16: each anchor element of a fragment is converted into exactly one run
\* whose text is the anchor's inner text with the anchor tag and the nested
\* bold tags removed, whose bold flag is set exactly when a bold tag was
\* nested inside the anchor, and which carries no link target (stated for a
\* fragment that is one anchor element, alone or between plain text).
C16_AnchorIsOneRun ==
    inPc = "returned"
    => \A open \in AnchorOpens, lead, trail \in {<<>>, <<"x">>},
          inner \in SeqsUpTo(AnchorInnerPieces, MaxInlinePieces) :
            inCase = lead \o <<open>> \o inner \o <<"</a>">> \o trail
            => /\ inOut = [n \in 1..Len(lead) |-> TextRun("x", FALSE, FALSE)]
                          \o << AnchorRun(inner) >>
                          \o [n \in 1..Len(trail) |-> TextRun("x", FALSE, FALSE)]
               /\ \A n \in 1..Len(inOut) :
                     DOMAIN inOut[n] = {"type", "text", "bold", "italic"}

\* the fragments of text and of bold and italic elements, none inside another
FlatFragments == SeqsUpTo({"x", " ", "<b>y</b>", "<i>z</i>"}, MaxInlinePieces)

\* the fragments that are one anchor element around text or around a bold or
\* an italic element
AnchorFragments(opens) ==
    { <<open, inner, "</a>">> : open \in opens, inner \in {"x", "<b>y</b>", "<i>z</i>"} }

\* the fragments that are an element inside a bold or an italic element
NestedFragments == { <<"<b>", "<i>z</i>", "</b>">>, <<"<i>", "<b>y</b>", "</i>">> }

\* no run has a tag in its text, and each bold or italic element outside an
\* anchor has a run with its text and its flag
RunsAreFreeOfTags ==
    /\ \A n \in 1..Len(inOut) : TextOutsideTags(inOut[n].text) = inOut[n].text
    /\ inCase \in FlatFragments
       => \A k \in 1..Len(inCase) :
             /\ inCase[k] = "<b>y</b>"
                => \E n \in 1..Len(inOut) : inOut[n].text = "y" /\ inOut[n].bold
             /\ inCase[k] = "<i>z</i>"
                => \E n \in 1..Len(inOut) : inOut[n].text = "z" /\ inOut[n].italic

\* C30: for a fragment built from anchor, bold and italic elements (elements
\* inside one another and anchors with another attribute before href
\* included), no run parseInlineHtml returns has a tag in its text, and a bold
\* or italic element outside an anchor has a run with the flag set
C30_NoTagInRunText ==
    (/\ inPc = "returned"
     /\ inCase \in FlatFragments \cup AnchorFragments(AnchorOpens) \cup NestedFragments)
    => RunsAreFreeOfTags

\* the same without the elements inside a bold or an italic element and with
\* href as the first attribute of an anchor
FreeOfTagsWhenFlatOrHrefFirst ==
    (/\ inPc = "returned"
     /\ inCase \in FlatFragments \cup AnchorFragments({"<a href=\"u\">"}))
    => RunsAreFreeOfTags

\* an italic element inside a bold one came back as a run with tags in its text
NestedElementKeepsTags ==
    /\ inPc = "returned"
    /\ inCase = <<"<b>", "<i>z</i>", "</b>">>
    /\ inOut = << TextRun("<i>z</i>", TRUE, FALSE) >>


(***************************************************************************)
(* The migration loop: one article after the other in the same process     *)
(***************************************************************************)

MaxArticles == 3

\* the files of a run: one per outcome of the loop body
SessionTemplates ==
    { [form |-> "articleData", title |-> "T", introText |-> "A|B",
       sections |-> << SecScenario >>, conclusion |-> "Z", damage |-> "none",
       region |-> <<>>],
      [form |-> "macroCall", title |-> "T", introText |-> "", sections |-> <<>>,
       conclusion |-> "Z", damage |-> "none", region |-> <<>>],
      [form |-> "articleData", title |-> "T", introText |-> "", sections |-> <<>>,
       conclusion |-> "", damage |-> "openObject", region |-> <<>>],
      [form |-> "workarea", title |-> "", introText |-> "", sections |-> <<>>,
       conclusion |-> "", damage |-> "none",
       region |-> << [src |-> "hello world", text |-> "hello world"] >>],
      [form |-> "static", title |-> "", introText |-> "", sections |-> <<>>,
       conclusion |-> "", damage |-> "none", region |-> <<>>] }

InitSession ==
    /\ template \in SessionTemplates
    /\ twigContent = RenderTemplate(template)
    /\ pc = "start"
    /\ strategy = "none"
    /\ article = EmptyRecord
    /\ richText = <<>>
    /\ OnlyEngine

\* if (!parsed || (!parsed.title && !parsed.introText && !parsed.rawHtml)) continue
noParseableContent(parsed) ==
    ~truthy(parsed, "title") /\ ~truthy(parsed, "introText") /\ ~truthy(parsed, "rawHtml")

\* const payload = buildStrapiPayload(parsed, ...), for an article that is not skipped
BuildStrapiPayload ==
    /\ ~noParseableContent(article)
    /\ BuildRichTextContent

\* the loop body ended for this article: built, skipped or caught
ArticleDone ==
    \/ pc \in {"built", "posted"}
    \/ pc = "threw"
    \/ pc = "parsed" /\ noParseableContent(article)

\* what the loop body came to for the article at hand
Outcome ==
    [source  |-> twigContent,
     result  |-> CASE pc \in {"built", "posted"} -> "built" [] pc = "threw" -> "threw"
                   [] OTHER -> "skipped",
     parsed  |-> IF pc = "threw" THEN EmptyRecord ELSE article,
     content |-> IF pc \in {"built", "posted"} THEN richText ELSE <<>>]

\* for (let i = 0; i < maxArticles; i++): the next article of the list; the
\* variables of the iteration before keep their values until they are assigned
NextArticle ==
    /\ ArticleDone
    /\ Len(session) + 1 < MaxArticles
    /\ session' = Append(session, Outcome)
    /\ \E t \in SessionTemplates :
          /\ template' = t
          /\ twigContent' = RenderTemplate(t)
    /\ pc' = "start"
    /\ UNCHANGED <<strategy, article, richText, parserVars, serverVars, runVars, toolVars>>

NextSession == ParseTwigFile \/ BuildStrapiPayload \/ NextArticle

SpecSession == InitSession /\ [][NextSession]_vars

MaxRequests == 2

ReviewStatuses == {"draft", "pending_review", "approved", "rejected"}

Missing == "missing"

\* the :id of a request
PostIds == {1}

\* who sends a request
Callers == {"public", "author", "editor", "admin"}

WorkflowActions == {"submitForReview", "approve", "reject"}

RequestIds == 1..MaxRequests

NoRequest ==
    [pc |-> "none", action |-> "none", caller |-> "none", id |-> 0, entity |-> "none",
     response |-> "none"]

InitWorkflow ==
    /\ posts \in [PostIds -> ReviewStatuses \cup {Missing}]
    /\ requests = [r \in RequestIds |-> NoRequest]
    /\ OnlyWorkflow

\* policies: [] of the three routes: the policies a request has to pass
policies(action) == {}

\* a POST on one of the three routes arrives and passes the policies of its route
Route(r) ==
    /\ requests[r].pc = "none"
    /\ \E action \in WorkflowActions, caller \in Callers, id \in PostIds :
          /\ \A policy \in policies(action) : policy[caller]
          /\ requests' = [requests EXCEPT ![r] =
                 [NoRequest EXCEPT !.pc = "routed", !.action = action,
                                   !.caller = caller, !.id = id]]
    /\ UNCHANGED <<posts, notWorkflow>>

\* const entity = await strapi.entityService.findOne('api::blog-post.blog-post', id)
FindOne(r) ==
    /\ requests[r].pc = "routed"
    /\ requests' = [requests EXCEPT ![r].pc = "found",
                                    ![r].entity = posts[requests[r].id]]
    /\ UNCHANGED <<posts, notWorkflow>>

\* entity.reviewStatus !== 'draft' && entity.reviewStatus !== 'rejected'
cannotSubmit(reviewStatus) == reviewStatus # "draft" /\ reviewStatus # "rejected"

\* entity.reviewStatus !== 'pending_review', in approve, with the draft let through
cannotApproveButDraft(reviewStatus) ==
    reviewStatus # "pending_review" /\ reviewStatus # "draft"

\* entity.reviewStatus !== 'pending_review', in approve
cannotApprove(reviewStatus) == reviewStatus # "pending_review"

\* entity.reviewStatus !== 'pending_review', in reject
cannotReject(reviewStatus) == reviewStatus # "pending_review"

\* the handler after findOne: ctx.notFound, ctx.badRequest, or the update
\* and the transformed response
Respond(r, refused, reviewStatus) ==
    IF requests[r].entity = Missing
    THEN /\ requests' = [requests EXCEPT ![r].pc = "done", ![r].response = "notFound"]
         /\ posts' = posts
    ELSE IF refused
    THEN /\ requests' = [requests EXCEPT ![r].pc = "done", ![r].response = "badRequest"]
         /\ posts' = posts
    ELSE /\ posts' = [posts EXCEPT ![requests[r].id] = reviewStatus]
         /\ requests' = [requests EXCEPT ![r].pc = "done", ![r].response = "ok"]

submitForReview(r) ==
    /\ requests[r].pc = "found"
    /\ requests[r].action = "submitForReview"
    /\ Respond(r, cannotSubmit(requests[r].entity), "pending_review")
    /\ UNCHANGED notWorkflow

approve(r) ==
    /\ requests[r].pc = "found"
    /\ requests[r].action = "approve"
    /\ Respond(r, cannotApprove(requests[r].entity), "approved")
    /\ UNCHANGED notWorkflow

reject(r) ==
    /\ requests[r].pc = "found"
    /\ requests[r].action = "reject"
    /\ Respond(r, cannotReject(requests[r].entity), "rejected")
    /\ UNCHANGED notWorkflow

NextWorkflow ==
    \E r \in RequestIds :
        \/ Route(r)
        \/ FindOne(r)
        \/ submitForReview(r)
        \/ approve(r)
        \/ reject(r)

SpecWorkflow == InitWorkflow /\ [][NextWorkflow]_vars

\* the transitions the workflow allows: action, status found, status written
AllowedTransitions ==
    { <<"submitForReview", "draft", "pending_review">>,
      <<"submitForReview", "rejected", "pending_review">>,
      <<"approve", "pending_review", "approved">>,
      <<"reject", "pending_review", "rejected">> }

\* the request r is answered in this step
Answered(r) == requests[r].pc = "found" /\ requests'[r].pc = "done"

\* C18: a request that found no post is answered not-found and one whose action
\* does not go with the status it found is answered bad-request, both without a
\* change of any post; every other request is answered with success and writes
\* the one status its action leads to from the status it found
C18_WorkflowTransitions ==
    [][\A r \in RequestIds :
          Answered(r) =>
             IF requests[r].entity = Missing
             THEN requests'[r].response = "notFound" /\ posts' = posts
             ELSE IF \E to \in ReviewStatuses :
                        <<requests[r].action, requests[r].entity, to>>
                           \in AllowedTransitions
             THEN /\ requests'[r].response = "ok"
                  /\ \E to \in ReviewStatuses :
                        /\ <<requests[r].action, requests[r].entity, to>>
                              \in AllowedTransitions
                        /\ posts' = [posts EXCEPT ![requests[r].id] = to]
             ELSE requests'[r].response = "badRequest" /\ posts' = posts]_vars

\* one request was refused and left the post as it was, another one went through
C18_Witness ==
    /\ requests[1].pc = "done"
    /\ requests[1].action = "approve"
    /\ requests[1].response = "badRequest"
    /\ requests[2].pc = "done"
    /\ requests[2].action = "submitForReview"
    /\ requests[2].response = "ok"
    /\ posts[1] = "pending_review"

\* C19: no request of a caller who is neither editor nor admin is answered with
\* success by approve or reject (a success of these writes approved or rejected)
C19_OnlyEditorsDecide ==
    \A r \in RequestIds :
        (/\ requests[r].pc = "done"
         /\ requests[r].action \in {"approve", "reject"}
         /\ requests[r].response = "ok")
        => requests[r].caller \in {"editor", "admin"}

\* C28: an approve or a reject is answered with success only while the post is
\* still in pending_review at the moment of its write, so of two concurrent
\* decisions on one post at most one succeeds and none overwrites the other
C28_OneDecisionPerReview ==
    [][\A r \in RequestIds :
          (/\ Answered(r)
           /\ requests[r].action \in {"approve", "reject"}
           /\ requests'[r].response = "ok")
          => posts[requests[r].id] = "pending_review"]_vars

\* an approve and a reject of the same post were both answered with success
BothDecisionsSucceeded ==
    \E r1, r2 \in RequestIds :
        /\ requests[r1].pc = "done" /\ requests[r2].pc = "done"
        /\ requests[r1].action = "approve" /\ requests[r2].action = "reject"
        /\ requests[r1].id = requests[r2].id
        /\ requests[r1].response = "ok" /\ requests[r2].response = "ok"

(***************************************************************************)
(* The scripts with a dry-run mode: migrate, register-images,              *)
(* upload-images and upload-all-images                                     *)
(***************************************************************************)

MaxRunItems == 2

Scripts == {"migrate", "register-images", "upload-images", "upload-all-images"}

ImageNames == {"a.webp", "b.webp"}

\* what the store answers to an upload: created, a server error, a refusal, or
\* no answer at all (0: the request fails)
UploadAnswers == {201, 500, 400, 0}

\* retries = 3 (uploadFileWithRetry)
retries == 3

\* const MAX_RETRIES = 3
MAX_RETRIES == 3

NoneSent == [get |-> 0, post |-> 0, put |-> 0, upload |-> 0]

NoStats == [uploaded |-> 0, linked |-> 0, skipped |-> 0, failed |-> 0]

Inc(counters, k) == [counters EXCEPT ![k] = @ + 1]

Plus(counters, k, n) == [counters EXCEPT ![k] = @ + n]

\* the flags of the command line, the API token and the media library of the store
RunEnvs(script) ==
    { e \in [dryRun : BOOLEAN, skipUpload : BOOLEAN, token : BOOLEAN,
             existing : SUBSET ImageNames] :
        /\ script # "upload-all-images" => ~e.skipUpload /\ e.existing = {}
        /\ script # "migrate" => e.token }

InitRuns ==
    /\ runScript \in Scripts
    /\ runEnv \in RunEnvs(runScript)
    /\ runPc = "start"
    /\ runDone = 0
    /\ runSent = NoneSent
    /\ runStats = NoStats
    /\ runMap = {}
    /\ IF runScript = "migrate"
       THEN /\ template \in SessionTemplates
            /\ twigContent = RenderTemplate(template)
            /\ pc = "start"
            /\ strategy = "none"
            /\ article = EmptyRecord
            /\ richText = <<>>
       ELSE EngineIdle
    /\ ParsersIdle /\ SessionIdle /\ ServerIdle /\ ToolsIdle

\* what a loop body leaves: the requests sent, the counters, the images known
\* to be uploaded, and whether an exception left the loop
RunState == [sent |-> runSent, stats |-> runStats, map |-> runMap, fatal |-> FALSE]

SetRunState(st) ==
    /\ runSent' = st.sent
    /\ runStats' = st.stats
    /\ runMap' = st.map

\* ---- migrate

\* main (migrate) up to the loop: the token check and the categories
MigrateStart ==
    /\ runScript = "migrate"
    /\ runPc = "start"
    /\ IF ~runEnv.token /\ ~runEnv.dryRun
       THEN runPc' = "exit" /\ runSent' = runSent
       ELSE /\ runPc' = "articles"
            /\ runSent' = IF runEnv.dryRun THEN runSent ELSE Inc(runSent, "get")
    /\ UNCHANGED <<runScript, runEnv, runDone, runStats, runMap, engineVars, sessVars,
                   notRun>>

\* const parsed = parseTwigFile(article.filePath)
MigrateParse == runPc = "articles" /\ ParseTwigFile

\* const payload = buildStrapiPayload(...)
MigrateBuild == runPc = "articles" /\ BuildStrapiPayload

\* if (DRY_RUN) { ...; continue; }, in migrate: TRUE if the article is not sent
migrateDryRun(dryRun) == dryRun

\* const res = await apiRequest('POST', '/api/blog-posts', payload)
MigratePost ==
    /\ runPc = "articles"
    /\ pc = "built"
    /\ ~migrateDryRun(runEnv.dryRun)
    /\ pc' = "posted"
    /\ runSent' = Inc(runSent, "post")
    /\ UNCHANGED <<template, twigContent, strategy, article, richText, runScript, runEnv,
                   runPc, runDone, runStats, runMap, sessVars, notRun>>

\* the loop goes on to the next article: after the dry-run report, after the
\* POST, after a skip or after a caught exception
MigrateNext ==
    /\ runPc = "articles"
    /\ pc = "built" => migrateDryRun(runEnv.dryRun)
    /\ NextArticle

\* ---- register-images and upload-images

\* a post of the store and what is on disk for it; image is the name of the
\* featured image its template names, "" if none
ImagePosts ==
    [hasImage : BOOLEAN, twig : BOOLEAN, image : ImageNames \cup {""}, onDisk : BOOLEAN]

\* the loop that fetches all posts (one page here)
FetchPosts ==
    /\ runScript \in {"register-images", "upload-images"}
    /\ runPc = "start"
    /\ runPc' = "posts"
    /\ runSent' = Inc(runSent, "get")
    /\ UNCHANGED <<runScript, runEnv, runDone, runStats, runMap, engineVars, sessVars,
                   notRun>>

\* uploadFileWithRetry from the given attempt on, answers[n] being what the
\* store answers to the n-th upload: the final status and the uploads sent
RECURSIVE uploadFileWithRetry(_, _)
uploadFileWithRetry(answers, attempt) ==
    IF answers[attempt] \in {200, 201}
    THEN [status |-> answers[attempt], uploads |-> attempt]
    ELSE IF answers[attempt] \in {500, 0} /\ attempt < retries
    THEN uploadFileWithRetry(answers, attempt + 1)
    ELSE [status |-> answers[attempt], uploads |-> attempt]

\* the PUT that links the media to the post, and the counters after it
linkPost(st, putStatus) ==
    [st EXCEPT !.sent = Inc(@, "put"),
               !.stats = Inc(@, IF putStatus = 200 THEN "linked" ELSE "failed")]

\* the checks that skip a post, in register-images and in upload-images
skipsPost(post) == post.hasImage \/ ~post.twig \/ post.image = "" \/ ~post.onDisk

\* the body of the loop of register-images
registerImage(dryRun, st, post, answers, putStatus) ==
    IF skipsPost(post) THEN [st EXCEPT !.stats = Inc(@, "skipped")]
    ELSE IF dryRun THEN [st EXCEPT !.stats = Inc(@, "linked")]
    ELSE IF post.image \in st.map THEN linkPost(st, putStatus)
    ELSE With(uploadFileWithRetry(answers, 1), LAMBDA uploadRes :
            IF uploadRes.status \in {200, 201}
            THEN linkPost([st EXCEPT !.sent = Plus(@, "upload", uploadRes.uploads),
                                     !.map = @ \cup {post.image},
                                     !.stats = Inc(@, "uploaded")], putStatus)
            ELSE [st EXCEPT !.sent = Plus(@, "upload", uploadRes.uploads),
                            !.stats = Inc(@, "failed")])

\* the body of the loop of upload-images: one upload, an exception is caught
uploadImage(dryRun, st, post, answers, putStatus) ==
    IF skipsPost(post) THEN [st EXCEPT !.stats = Inc(@, "skipped")]
    ELSE IF dryRun THEN [st EXCEPT !.stats = Inc(@, "linked")]
    ELSE IF post.image \in st.map THEN linkPost(st, putStatus)
    ELSE IF answers[1] \in {200, 201}
    THEN linkPost([st EXCEPT !.sent = Inc(@, "upload"),
                             !.map = @ \cup {post.image},
                             !.stats = Inc(@, "uploaded")], putStatus)
    ELSE [st EXCEPT !.sent = Inc(@, "upload"), !.stats = Inc(@, "failed")]

RegisterImage ==
    /\ runScript = "register-images"
    /\ runPc = "posts"
    /\ runDone < MaxRunItems
    /\ runDone' = runDone + 1
    /\ \E post \in ImagePosts, answers \in [1..retries -> UploadAnswers],
          putStatus \in {200, 500} :
          SetRunState(registerImage(runEnv.dryRun, RunState, post, answers, putStatus))
    /\ UNCHANGED <<runScript, runEnv, runPc, engineVars, sessVars, notRun>>

UploadImage ==
    /\ runScript = "upload-images"
    /\ runPc = "posts"
    /\ runDone < MaxRunItems
    /\ runDone' = runDone + 1
    /\ \E post \in ImagePosts, answers \in [1..1 -> UploadAnswers],
          putStatus \in {200, 500} :
          SetRunState(uploadImage(runEnv.dryRun, RunState, post, answers, putStatus))
    /\ UNCHANGED <<runScript, runEnv, runPc, engineVars, sessVars, notRun>>

\* ---- upload-all-images

\* a post of the store: whether it has the media relation, the file name of its
\* featuredImageUrl ("" if none) and the one its template names ("" if none)
LinkPosts ==
    [hasMedia : BOOLEAN, url : ImageNames \cup {""}, twigImage : ImageNames \cup {""}]

\* the inventory of the disk and the list of the media library
CheckExistingMedia ==
    /\ runScript = "upload-all-images"
    /\ runPc = "start"
    /\ runSent' = Inc(runSent, "get")
    /\ runMap' = runEnv.existing
    /\ runPc' = IF runEnv.skipUpload THEN "fetch" ELSE "images"
    /\ UNCHANGED <<runScript, runEnv, runDone, runStats, engineVars, sessVars, notRun>>

\* uploadWithRetry from the given attempt on: the final status and the uploads
\* sent; an upload without an answer throws out of the loop (status 0)
RECURSIVE uploadWithRetry(_, _)
uploadWithRetry(answers, attempt) ==
    IF answers[attempt] \in {200, 201, 0}
    THEN [status |-> answers[attempt], uploads |-> attempt]
    ELSE IF attempt < MAX_RETRIES
    THEN uploadWithRetry(answers, attempt + 1)
    ELSE [status |-> answers[attempt], uploads |-> attempt]

\* the upload loop of upload-all-images without its dry-run check
uploadAllDryRunOff(dryRun) == FALSE

\* if (DRY_RUN) { ...; continue; }, in the upload loop of upload-all-images
uploadAllDryRun(dryRun) == dryRun

\* the body of the upload loop of upload-all-images
uploadAllImage(dryRun, st, img, answers) ==
    IF img \in runEnv.existing THEN [st EXCEPT !.stats = Inc(@, "skipped")]
    ELSE IF uploadAllDryRun(dryRun) THEN [st EXCEPT !.stats = Inc(@, "uploaded")]
    ELSE With(uploadWithRetry(answers, 1), LAMBDA result :
            IF result.status \in {200, 201}
            THEN [st EXCEPT !.sent = Plus(@, "upload", result.uploads),
                            !.map = @ \cup {img},
                            !.stats = Inc(@, "uploaded")]
            ELSE [st EXCEPT !.sent = Plus(@, "upload", result.uploads),
                            !.stats = Inc(@, "failed"),
                            !.fatal = (result.status = 0)])

UploadAllImage ==
    /\ runScript = "upload-all-images"
    /\ runPc = "images"
    /\ runDone < MaxRunItems
    /\ \E img \in ImageNames, answers \in [1..MAX_RETRIES -> UploadAnswers] :
          \E st \in {uploadAllImage(runEnv.dryRun, RunState, img, answers)} :
             /\ SetRunState(st)
             /\ runPc' = IF st.fatal THEN "exit" ELSE runPc
    /\ runDone' = runDone + 1
    /\ UNCHANGED <<runScript, runEnv, engineVars, sessVars, notRun>>

\* the upload loop is over, or was left out: the posts are fetched
FetchAllPosts ==
    /\ runScript = "upload-all-images"
    /\ runPc \in {"images", "fetch"}
    /\ runPc' = "posts"
    /\ runDone' = 0
    /\ runSent' = Inc(runSent, "get")
    /\ UNCHANGED <<runScript, runEnv, runStats, runMap, engineVars, sessVars, notRun>>

\* the body of the link loop of upload-all-images
linkAllPost(dryRun, st, post, putStatus) ==
    IF post.hasMedia \/ post.url = "" THEN [st EXCEPT !.stats = Inc(@, "skipped")]
    ELSE IF post.url \notin st.map /\ (post.twigImage = "" \/ post.twigImage \notin st.map)
    THEN [st EXCEPT !.stats = Inc(@, "skipped")]
    ELSE IF dryRun THEN [st EXCEPT !.stats = Inc(@, "linked")]
    ELSE linkPost(st, putStatus)

LinkAllPost ==
    /\ runScript = "upload-all-images"
    /\ runPc = "posts"
    /\ runDone < MaxRunItems
    /\ runDone' = runDone + 1
    /\ \E post \in LinkPosts, putStatus \in {200, 500} :
          SetRunState(linkAllPost(runEnv.dryRun, RunState, post, putStatus))
    /\ UNCHANGED <<runScript, runEnv, runPc, engineVars, sessVars, notRun>>

\* the last loop of a script is over: the summary
Summary ==
    /\ \/ runPc = "posts"
       \/ runPc = "articles" /\ ArticleDone /\ (pc = "built" => runEnv.dryRun)
    /\ runPc' = "done"
    /\ UNCHANGED <<runScript, runEnv, runDone, runSent, runStats, runMap, engineVars,
                   sessVars, notRun>>

NextRuns ==
    \/ MigrateStart
    \/ MigrateParse
    \/ MigrateBuild
    \/ MigratePost
    \/ MigrateNext
    \/ FetchPosts
    \/ RegisterImage
    \/ UploadImage
    \/ CheckExistingMedia
    \/ UploadAllImage
    \/ FetchAllPosts
    \/ LinkAllPost
    \/ Summary

SpecRuns == InitRuns /\ [][NextRuns]_vars

\* C20: in a run with --dry-run none of the four scripts sends a create, an
\* update or a file upload, whatever the files and the store hold
C20_DryRunSendsNothing ==
    runEnv.dryRun =>
        runSent.post = 0 /\ runSent.put = 0 /\ runSent.upload = 0

\* a dry run of upload-all-images that came to its summary and reported images
\* it would upload and posts it would link
C20_Witness ==
    /\ runScript = "upload-all-images"
    /\ runEnv.dryRun
    /\ runPc = "done"
    /\ runStats.uploaded > 0
    /\ runStats.linked > 0
    /\ runSent.get = 2

\* a dry run of migrate that built the blocks of an article and went on
DryRunOfMigrateReached ==
    /\ runScript = "migrate"
    /\ runEnv.dryRun
    /\ Len(session) = 1
    /\ session[1].result = "built"
    /\ runSent = NoneSent

(***************************************************************************)
(* The TOC cascade of the positional-call form                             *)
(***************************************************************************)

\* most objects of each of the two arrays of a cascade source
MaxCascadeItems == 2

\* the objects of the array that follows the content sections
LateTocObjects ==
    { [href |-> "#s1", title |-> "One", order |-> "titleHref"],
      [href |-> "/page", title |-> "Page", order |-> "titleHref"],
      [href |-> "#s2", title |-> "Two", order |-> "hrefTitle"],
      [href |-> "/page", title |-> "Page", order |-> "hrefTitle"] }

\* the objects of an array that comes before the content sections
EarlyTocObjects ==
    { [href |-> "#e1", title |-> "Early", order |-> "titleHref"],
      [href |-> "/early", title |-> "Away", order |-> "titleHref"],
      [href |-> "#e2", title |-> "Other", order |-> "hrefTitle"] }

RenderTocArray(objects) ==
    "[ " \o Join([n \in 1..Len(objects) |-> RenderTocObject(objects[n], objects[n].order)],
                 Len(objects), ", ") \o " ]"

\* a positional-call source with an array of TOC objects in front of the
\* content sections and one behind them
RenderCascadeTemplate(t) ==
    TemplateHead
    \o "{{ blog_macros.blog_content( 'T', asset('img/a.png'), 'alt text', 'Intro', "
    \o RenderTocArray(t.early) \o ", [ {'heading': 'H', 'content': 'C'} ], "
    \o RenderTocArray(t.late) \o ", null ) }}"

CascadeTemplates ==
    [early : SeqsUpTo(EarlyTocObjects, MaxCascadeItems),
     late  : SeqsUpTo(LateTocObjects, MaxCascadeItems)]

InitCascade ==
    /\ template \in CascadeTemplates
    /\ twigContent = RenderCascadeTemplate(template)
    /\ pc = "start"
    /\ strategy = "none"
    /\ article = EmptyRecord
    /\ richText = <<>>
    /\ OnlyEngine

NextCascade == ParseTwigFile

SpecCascade == InitCascade /\ [][NextCascade]_vars

\* the {href, title} records of the objects written in the given order
RECURSIVE WrittenAs(_, _)
WrittenAs(objects, order) ==
    IF objects = <<>> THEN <<>>
    ELSE (IF Head(objects).order = order
          THEN << [href |-> Head(objects).href, title |-> Head(objects).title] >>
          ELSE <<>>)
         \o WrittenAs(Tail(objects), order)

\* the anchors among the given records
RECURSIVE Anchors(_)
Anchors(items) ==
    IF items = <<>> THEN <<>>
    ELSE (IF SubSeq(Head(items).href, 1, 1) = "#" THEN << Head(items) >> ELSE <<>>)
         \o Anchors(Tail(items))

LastResortReached ==
    /\ pc = "parsed"
    /\ template.late = <<>>
    /\ template.early = << [href |-> "/early", title |-> "Away", order |-> "titleHref"],
                           [href |-> "#e1", title |-> "Early", order |-> "titleHref"] >>
    /\ article.tocItems = << [href |-> "#e1", title |-> "Early"] >>

(***************************************************************************)
(* The legacy list shape: a bare items array                               *)
(***************************************************************************)

\* most items of an items array of a legacy case
MaxLegacyItems == 2

\* items that pass every filter
LegacyItemChoices ==
    { [src |-> "abc",    val |-> "abc"],
      [src |-> "it\\'s", val |-> "it's"] }

\* the fields of the object that carries the lists: a structured lists field
\* (if c.structured has items) and a bare items array (if c.bare has items)
RenderLegacyFields(c) ==
    (IF c.structured = <<>> THEN <<>> ELSE << RenderListsOf(c.structured) >>)
    \o (IF c.bare = <<>> THEN <<>> ELSE << RenderItems(c.bare) >>)

\* the hash content: one section that carries the lists itself or whose
\* subsection carries them
RenderLegacyCase(c) ==
    "{ 'content_sections': [ "
    \o (IF c.level = "section"
        THEN RenderFields(Pair("heading", "H") \o RenderLegacyFields(c))
        ELSE RenderFields(Pair("heading", "H")
                          \o << "'subsections': [ "
                                \o RenderFields(Pair("subheading", "S")
                                                \o RenderLegacyFields(c))
                                \o " ]" >>))
    \o " ] }"

LegacyCases ==
    [level      : {"section", "subsection"},
     structured : SeqsUpTo(LegacyItemChoices, MaxLegacyItems),
     bare       : SeqsUpTo(LegacyItemChoices, MaxLegacyItems)]

InitLegacy ==
    /\ OnlySections
    /\ csCase \in LegacyCases
    /\ csText = RenderLegacyCase(csCase)
    /\ csOut = <<>>
    /\ csPc = "call"

SpecLegacy == InitLegacy /\ [][NextSections]_vars

\* the strings the items of a case stand for
ItemValues(items) == [n \in 1..Len(items) |-> items[n].val]

\* the lists extracted for the object that carries the lists of the case
ListsOfCase ==
    IF csCase.level = "section" THEN csOut[1].lists
    ELSE csOut[1].subsections[1].lists

\* C22: a section or subsection with a bare items array and no structured
\* lists field gets exactly one list with empty title, not ordered, holding
\* those items; with a structured lists field that yields a list, the
\* structured list is the result and the bare items are left aside
C22_LegacyItemsFallback ==
    csPc = "returned" =>
        /\ Len(csOut) = 1
        /\ csCase.level = "subsection" => Len(csOut[1].subsections) = 1
        /\ ListsOfCase =
              IF csCase.structured # <<>>
              THEN << [title |-> "L", ordered |-> TRUE,
                       items |-> ItemValues(csCase.structured)] >>
              ELSE IF csCase.bare # <<>>
              THEN << [title |-> "", ordered |-> FALSE,
                       items |-> ItemValues(csCase.bare)] >>
              ELSE <<>>

\* the same for the subsections only
LegacyItemsFallbackInSubsections ==
    csCase.level = "subsection" => C22_LegacyItemsFallback

(***************************************************************************)
(* The fields of a section and the fields of its subsection                *)
(***************************************************************************)

\* which of the two objects, the section and its subsection, carries a field
Owners == {"none", "section", "subsection", "both"}

\* the value v of a field in the object named who, if the owner says so
OwnValue(owner, who, v) == IF owner \in {who, "both"} THEN v ELSE ""

\* the list of an object, if the owner says so
OwnLists(owner, who, title, item) ==
    IF owner \in {who, "both"}
    THEN << [title |-> title, items |-> <<item>>, ordered |-> FALSE] >>
    ELSE <<>>

\* the hash content: one section with its own fields first and one
\* subsection after them
RenderOwnCase(c) ==
    "{ 'content_sections': [ "
    \o RenderFields(
          Pair("heading", "H")
          \o Pair("content", OwnValue(c.content, "section", "C1"))
          \o Pair("additional_content", OwnValue(c.additional, "section", "A1"))
          \o RenderLists(OwnLists(c.lists, "section", "L1", "abc"))
          \o << "'subsections': [ "
                \o RenderFields(
                      Pair("subheading", "S")
                      \o Pair("content", OwnValue(c.content, "subsection", "C2"))
                      \o Pair("additional_content",
                              OwnValue(c.additional, "subsection", "A2"))
                      \o RenderLists(OwnLists(c.lists, "subsection", "L2", "abd")))
                \o " ]" >>)
    \o " ] }"

OwnCases == [content : Owners, additional : Owners, lists : Owners]

InitOwn ==
    /\ OnlySections
    /\ csCase \in OwnCases
    /\ csText = RenderOwnCase(csCase)
    /\ csOut = <<>>
    /\ csPc = "call"

SpecOwn == InitOwn /\ [][NextSections]_vars

\* the subsection of the case came back with its own fields
SubsectionHasItsFields ==
    /\ Len(csOut) = 1
    /\ Len(csOut[1].subsections) = 1
    /\ csOut[1].subsections[1].content = OwnValue(csCase.content, "subsection", "C2")
    /\ csOut[1].subsections[1].additionalContent
          = OwnValue(csCase.additional, "subsection", "A2")
    /\ csOut[1].subsections[1].lists = OwnLists(csCase.lists, "subsection", "L2", "abd")

\* C29: the content, the additional content and the lists of a section are
\* those of its own fields: for a section without the field whose subsection
\* has it, the value of the section is empty and the value of the subsection
\* is in the subsection only
C29_SectionOwnFieldsOnly ==
    csPc = "returned"
    => /\ SubsectionHasItsFields
       /\ csOut[1].content = OwnValue(csCase.content, "section", "C1")
       /\ csOut[1].additionalContent = OwnValue(csCase.additional, "section", "A1")
       /\ csOut[1].lists = OwnLists(csCase.lists, "section", "L1", "abc")

\* the same for the sections that have every field their subsection has
OwnFieldsWhenSectionHasThem ==
    (/\ csCase.content # "subsection"
     /\ csCase.additional # "subsection"
     /\ csCase.lists # "subsection")
    => C29_SectionOwnFieldsOnly

\* the content of the subsection came back as the content of a section
\* without content
SubsectionContentInSection ==
    /\ csPc = "returned"
    /\ csCase.content = "subsection"
    /\ csOut[1].content = "C2"
    /\ csOut[1].subsections[1].content = "C2"

(***************************************************************************)
(* splitTopLevelObjects against the brace pairs of the body                *)
(***************************************************************************)

\* the spans of the top-level brace pairs of str from index i on, read with a
\* depth that counts the braces open at i: a closing brace that closes nothing
\* belongs to no pair
RECURSIVE TopLevelPairs(_, _, _, _)
TopLevelPairs(str, i, depth, start) ==
    IF i >= Len(str) THEN <<>>
    ELSE IF charAt(str, i) = "{"
    THEN TopLevelPairs(str, i + 1, depth + 1, IF depth = 0 THEN i ELSE start)
    ELSE IF charAt(str, i) = "}" /\ depth = 1
    THEN << substring(str, start, i + 1) >> \o TopLevelPairs(str, i + 1, 0, -1)
    ELSE IF charAt(str, i) = "}" /\ depth > 1
    THEN TopLevelPairs(str, i + 1, depth - 1, start)
    ELSE TopLevelPairs(str, i + 1, depth, start)

\* C23: splitTopLevelObjects returns, in source order, one span for each
\* top-level brace pair of the body, from its opening brace to the matching
\* closing brace, whatever stands in front of the pair
C23_OneSpanPerTopLevelPair ==
    (scanKind = "split" /\ scanPc = "done")
    => scanResult = TopLevelPairs(scanText, 0, 0, -1)

\* the same for the bodies in which no closing brace comes without an opening one
SplitsBodiesWithoutStrayClose ==
    (scanKind = "split" /\ scanPc = "done"
     /\ \A k \in 1..Len(scanText) :
           Cardinality({n \in 1..k : SubSeq(scanText, n, n) = "}"})
              <= Cardinality({n \in 1..k : SubSeq(scanText, n, n) = "{"}))
    => scanResult = TopLevelPairs(scanText, 0, 0, -1)

(***************************************************************************)
(* The length of rawHtml                                                   *)
(***************************************************************************)

\* C24: the rawHtml of a parsed article is never longer than the bound the
\* fallback text is cut to
C24_RawHtmlBounded ==
    (pc \in {"parsed", "built"} /\ "rawHtml" \in DOMAIN article)
    => Len(article.rawHtml) <= RawHtmlLimit

\* the text of the fallback paragraph is never longer than the bound
FallbackParagraphBounded ==
    (pc = "built" /\ "rawHtml" \in DOMAIN article /\ Len(richText) = 1)
    => Len(richText[1].children[1].text) <= RawHtmlLimit

(***************************************************************************)
(* uploadWithRetry of upload-all-images, one upload after the other        *)
(***************************************************************************)

\* const DELAY_MS = 2500
DELAY_MS == 2500

\* the files uploaded
RetryFiles == ImageNames \cup {"c.webp"}

\* what an upload comes to: a status of the store, or no answer (0: the
\* request fails and the promise of uploadFile is rejected)
RetryAnswers == UploadAnswers \cup {200}

NoResult == <<>>

InitRetry ==
    /\ OnlyRetry
    /\ retryFile \in RetryFiles
    /\ retryPc = "upload"
    /\ retryAttempt = 1
    /\ retryLog = <<>>
    /\ retryWaits = <<>>
    /\ retryResult = NoResult

\* result.status === 200 || result.status === 201
uploadSucceeded(status) == status = 200 \/ status = 201

\* const wait = DELAY_MS * attempt
retryWait(attempt) == DELAY_MS * attempt

\* const result = await uploadFile(filePath, altText), and what the loop body
\* does with it up to its next await
UploadFile ==
    /\ retryPc = "upload"
    /\ retryAttempt <= MAX_RETRIES
    /\ \E answer \in RetryAnswers :
          /\ retryLog' = Append(retryLog, answer)
          /\ IF answer = 0
             THEN retryPc' = "threw" /\ retryResult' = retryResult
             ELSE IF uploadSucceeded(answer)
             THEN /\ retryPc' = "returned"
                  /\ retryResult' = [status |-> answer, file |-> retryFile]
             ELSE IF retryAttempt < MAX_RETRIES
             THEN retryPc' = "sleep" /\ retryResult' = retryResult
             ELSE /\ retryPc' = "returned"
                  /\ retryResult' = [status |-> answer, file |-> retryFile]
    /\ UNCHANGED <<retryFile, retryAttempt, retryWaits, notRetry>>

\* await sleep(wait), and attempt++
Sleep ==
    /\ retryPc = "sleep"
    /\ retryWaits' = Append(retryWaits, retryWait(retryAttempt))
    /\ retryAttempt' = retryAttempt + 1
    /\ retryPc' = "upload"
    /\ UNCHANGED <<retryFile, retryLog, retryResult, notRetry>>

NextRetry == UploadFile \/ Sleep

SpecRetry == InitRetry /\ [][NextRetry]_vars

\* at most MAX_RETRIES uploads, one wait of DELAY_MS times the attempt number
\* after each failed upload that is followed by another, and at the return the
\* result of the last upload, which is the first success or the last of
\* MAX_RETRIES failures
RetrySchedule ==
    /\ Len(retryLog) <= MAX_RETRIES
    /\ \A n \in 1..Len(retryLog) - 1 : ~uploadSucceeded(retryLog[n])
    /\ \A n \in 1..Len(retryWaits) : retryWaits[n] = DELAY_MS * n
    /\ retryPc = "returned"
       => /\ retryResult = [status |-> retryLog[Len(retryLog)], file |-> retryFile]
          /\ Len(retryWaits) = Len(retryLog) - 1
          /\ uploadSucceeded(retryResult.status) \/ Len(retryLog) = MAX_RETRIES

\* C26: uploadWithRetry makes at most MAX_RETRIES uploads, returns the first
\* result with status 200 or 201, waits DELAY_MS times the attempt number
\* between a failed upload and the next, returns the last failure after
\* MAX_RETRIES failures, and always ends with a result
C26_RetryReturnsResult ==
    /\ RetrySchedule
    /\ retryPc \notin {"upload", "sleep"} => retryPc = "returned"

\* the third upload failed and its result was returned after two waits
ThirdFailureReturned ==
    /\ retryPc = "returned"
    /\ retryLog = <<500, 400, 500>>
    /\ retryWaits = <<2500, 5000>>
    /\ retryResult.status = 500

(***************************************************************************)
(* The lifecycle hooks of the blog post: the webhook after a write         *)
(***************************************************************************)

\* most writes of a run
MaxOps == 2

\* what a write comes from: the update and the delete of the content API and
\* the three handlers of the review workflow
Vias == {"update", "delete"} \cup WorkflowActions

\* process.env.SYMFONY_BASE_URL and process.env.WEBHOOK_SECRET; "" when not set
HookEnvs == [baseUrl : {"", "http://symfony"}, secret : {"", "s3cret"}]

\* the posts of the store: with or without slug
StoredPosts == [slug : {"", "a"}, reviewStatus : ReviewStatuses]

\* what an update of the content API changes: the title only, or the slug
UpdateData == {"title", "slug"}

\* what the fetch of the webhook comes to: an OK response, a response that is
\* not OK, or an error thrown
FetchAnswers == {"ok", "notOk", "throws"}

OpIds == 1..MaxOps

\* no row in the store
NoPost == [slug |-> "", reviewStatus |-> Missing]

NoOp ==
    [pc |-> "none", via |-> "none", id |-> 0, result |-> NoPost, logs |-> <<>>,
     outcome |-> "none"]

InitHooks ==
    /\ OnlyHooks
    /\ hookEnv \in HookEnvs
    /\ hookPosts \in [PostIds -> StoredPosts \cup {NoPost}]
    /\ hookOps = [o \in OpIds |-> NoOp]
    /\ hookSent = <<>>

\* the row after the write of the given kind
written(via, post, data) ==
    CASE via = "submitForReview" -> [post EXCEPT !.reviewStatus = "pending_review"]
      [] via = "approve" -> [post EXCEPT !.reviewStatus = "approved"]
      [] via = "reject" -> [post EXCEPT !.reviewStatus = "rejected"]
      [] via = "update" /\ data = "slug" -> [post EXCEPT !.slug = "b"]
      [] OTHER -> post

\* the test of the status in the handler of the given kind
refuses(via, reviewStatus) ==
    CASE via = "submitForReview" -> cannotSubmit(reviewStatus)
      [] via = "approve" -> cannotApprove(reviewStatus)
      [] via = "reject" -> cannotReject(reviewStatus)
      [] OTHER -> FALSE

\* a write arrives: it is answered not-found or bad-request and leaves the
\* store as it is, or the entity service writes the row and is about to call
\* the hook with the row as event.result
EntityWrite(o) ==
    /\ hookOps[o].pc = "none"
    /\ \E via \in Vias, id \in PostIds, data \in UpdateData :
          IF hookPosts[id] = NoPost
          THEN /\ hookOps' = [hookOps EXCEPT ![o] =
                     [NoOp EXCEPT !.pc = "done", !.via = via, !.id = id,
                                  !.outcome = "notFound"]]
               /\ hookPosts' = hookPosts
          ELSE IF refuses(via, hookPosts[id].reviewStatus)
          THEN /\ hookOps' = [hookOps EXCEPT ![o] =
                     [NoOp EXCEPT !.pc = "done", !.via = via, !.id = id,
                                  !.outcome = "badRequest"]]
               /\ hookPosts' = hookPosts
          ELSE /\ hookOps' = [hookOps EXCEPT ![o] =
                     [NoOp EXCEPT !.pc = "written", !.via = via, !.id = id,
                                  !.result = written(via, hookPosts[id], data)]]
               /\ hookPosts' = [hookPosts EXCEPT ![id] =
                     IF via = "delete" THEN NoPost
                     ELSE written(via, hookPosts[id], data)]
    /\ UNCHANGED <<hookEnv, hookSent, notHooks>>

\* if (!webhookUrl || !webhookSecret) return, with && in the place of ||
notConfiguredAtAll(env) == env.baseUrl = "" /\ env.secret = ""

\* if (!webhookUrl || !webhookSecret) return
notConfigured(env) == env.baseUrl = "" \/ env.secret = ""

\* the request of the webhook: url, X-Strapi-Webhook-Secret and entry.slug
webhookRequest(env, slug) ==
    [url |-> env.baseUrl \o "/cms-webhook/invalidate", secret |-> env.secret,
     slug |-> slug]

\* strapi.log.info of afterUpdate and afterDelete
hookInfo(via) == IF via = "delete" THEN "info: deleted" ELSE "info: updated"

\* afterUpdate, afterDelete: up to the fetch of invalidateSymfonyCache, or to
\* the end when there is no slug or the webhook is not configured
AfterWrite(o) ==
    /\ hookOps[o].pc = "written"
    /\ IF hookOps[o].result.slug # "" /\ ~notConfigured(hookEnv)
       THEN /\ hookSent' = Append(hookSent,
                  [op |-> o, request |-> webhookRequest(hookEnv, hookOps[o].result.slug)])
            /\ hookOps' = [hookOps EXCEPT ![o].pc = "fetching"]
       ELSE /\ hookSent' = hookSent
            /\ hookOps' = [hookOps EXCEPT ![o].pc = "done", ![o].outcome = "ok",
                              ![o].logs = Append(@, hookInfo(hookOps[o].via))]
    /\ UNCHANGED <<hookEnv, hookPosts, notHooks>>

\* what invalidateSymfonyCache logs for the answer of the fetch
fetchLog(answer) ==
    CASE answer = "ok" -> "info: invalidated"
      [] answer = "notOk" -> "warn: failed"
      [] OTHER -> "warn: error"

\* the fetch is answered or throws; the rest of invalidateSymfonyCache and of
\* the hook
FetchAnswered(o) ==
    /\ hookOps[o].pc = "fetching"
    /\ \E answer \in FetchAnswers :
          hookOps' = [hookOps EXCEPT ![o].pc = "done", ![o].outcome = "ok",
                         ![o].logs = @ \o << fetchLog(answer), hookInfo(hookOps[o].via) >>]
    /\ UNCHANGED <<hookEnv, hookPosts, hookSent, notHooks>>

NextHooks ==
    \E o \in OpIds :
        \/ EntityWrite(o)
        \/ AfterWrite(o)
        \/ FetchAnswered(o)

SpecHooks == InitHooks /\ [][NextHooks]_vars

\* the requests of the webhook sent for the write o
SentFor(o) == SelectSeq(hookSent, LAMBDA m : m.op = o)

\* the store was written for o
Wrote(o) == hookOps[o].result # NoPost

\* C25: a write of a post (update, delete or one of the three status changes)
\* ends with success whatever the webhook comes to, and once its hook has run,
\* one webhook request with the slug of the written post was sent for it if
\* the post has a slug and both the base URL and the secret are set, and none
\* otherwise
C25_WebhookAfterWrite ==
    \A o \in OpIds :
        Wrote(o) =>
           /\ hookOps[o].pc = "done" => hookOps[o].outcome = "ok"
           /\ hookOps[o].pc \in {"fetching", "done"} =>
                 [n \in 1..Len(SentFor(o)) |-> SentFor(o)[n].request]
                    = IF /\ hookOps[o].result.slug # ""
                         /\ hookEnv.baseUrl # "" /\ hookEnv.secret # ""
                      THEN << [url |-> hookEnv.baseUrl \o "/cms-webhook/invalidate",
                               secret |-> hookEnv.secret,
                               slug |-> hookOps[o].result.slug] >>
                      ELSE <<>>
           /\ hookOps[o].pc = "written" => SentFor(o) = <<>>

\* an approve ended with success after its one webhook threw
C25_Witness ==
    \E o \in OpIds :
        /\ hookOps[o].pc = "done"
        /\ hookOps[o].via = "approve"
        /\ hookOps[o].outcome = "ok"
        /\ hookOps[o].logs = << "warn: error", "info: updated" >>
        /\ Len(SentFor(o)) = 1
        /\ SentFor(o)[1].request.slug = "a"

\* a write with only one of the two settings ended without a webhook
HalfConfiguredSendsNothing ==
    /\ hookEnv.baseUrl # "" /\ hookEnv.secret = ""
    /\ \E o \in OpIds :
          /\ hookOps[o].pc = "done" /\ hookOps[o].via = "delete"
          /\ hookOps[o].result.slug = "a"
          /\ SentFor(o) = <<>>

(***************************************************************************)
(* import-all-missing: the direct import of the images into the files      *)
(* table, run after run                                                    *)
(***************************************************************************)

\* most images of the image directory
MaxImages == 2

\* most runs of the script
MaxImportRuns == 2

\* the files of the image directory, in the order the two readdirSync loops
\* meet them: category (system) and file name
ImagePaths ==
    << [system |-> "casco", fileName |-> "a.webp"],
       [system |-> "casco", fileName |-> "b.webp"],
       [system |-> "rca", fileName |-> "a.webp"],
       [system |-> "rca", fileName |-> "b.webp"] >>

\* what a file holds; "" for a file that is not there
FileContents == {"c1", "c2"}

\* crypto.createHash('md5').update(content).digest('hex')
md5(content) ==
    IF content = "c1" THEN "0cc175b9c0f1b6a831c399e269772661"
    ELSE "92eb5ffee6ae2fec3ad71c777531578f"

\* md5(...).substring(0, 10)
contentHash(content) == substring(md5(content), 0, 10)

\* s.replace(lit, rep) for a string pattern: the first occurrence only
replaceFirst(s, lit, rep) ==
    IF indexOf(s, lit, 0) = -1 THEN s
    ELSE substring(s, 0, indexOf(s, lit, 0)) \o rep
         \o substring(s, indexOf(s, lit, 0) + Len(lit), Len(s))

\* img.system + '_' + img.fileName.replace('.webp', '') + '_' + contentHash
uniqueHash(img) ==
    img.system \o "_" \o replaceFirst(img.fileName, ".webp", "") \o "_"
    \o contentHash(img.content)

\* img.fileName.replace('.webp', '') + '_' + contentHash
oldHash(img) == replaceFirst(img.fileName, ".webp", "") \o "_" \o contentHash(img.content)

\* the row insertStmt.run inserts (the columns that differ between images)
insertedRow(img) ==
    [name |-> img.fileName, hash |-> uniqueHash(img), folder_path |-> "/" \o img.system,
     url |-> "/uploads/" \o uniqueHash(img) \o ".webp"]

\* the row an import of the older format left for the image
legacyRow(img) ==
    [name |-> img.fileName, hash |-> oldHash(img), folder_path |-> "/",
     url |-> "/uploads/" \o oldHash(img) \o ".webp"]

\* the n-th file of the image directory and what it holds
ImageAt(disk, n) ==
    [system |-> ImagePaths[n].system, fileName |-> ImagePaths[n].fileName,
     content |-> disk[n]]

\* allImages: the files that are there, in the order of the scan
allImages(disk) ==
    SelectSeq([n \in 1..Len(ImagePaths) |-> ImageAt(disk, n)],
              LAMBDA img : img.content # "")

\* the image directory, and for each of its files what the files table holds
\* of it before the first run: nothing, a row of the older format, or a row of
\* this script
ImportCases ==
    { c \in [disk : [1..Len(ImagePaths) -> FileContents \cup {""}],
             rows : [1..Len(ImagePaths) -> {"none", "old", "new"}]] :
        /\ Len(allImages(c.disk)) \in 1..MaxImages
        /\ \A n \in 1..Len(ImagePaths) : c.disk[n] = "" => c.rows[n] = "none" }

\* the files table before the first run
RECURSIVE TableOfCase(_, _)
TableOfCase(c, n) ==
    IF n > Len(ImagePaths) THEN <<>>
    ELSE (CASE c.rows[n] = "old" ->
                  << legacyRow(ImageAt(c.disk, n)) >>
            [] c.rows[n] = "new" ->
                  << insertedRow(ImageAt(c.disk, n)) >>
            [] OTHER -> <<>>)
         \o TableOfCase(c, n + 1)

NoCounts == [inserted |-> 0, skipped |-> 0]

InitImport ==
    /\ OnlyImport
    /\ impCase \in ImportCases
    /\ impTable = TableOfCase(impCase, 1)
    /\ impUploads = {impTable[n].url : n \in 1..Len(impTable)}
    /\ impExisting = {}
    /\ impQueue = <<>>
    /\ impPc = "start"
    /\ impRun = 1
    /\ impCounts = NoCounts
    /\ impLog = <<>>

\* new Set(existingFiles.map(f => f.name)): the rows known by their name
existingByName(existingFiles) ==
    {existingFiles[n].name : n \in 1..Len(existingFiles)}

\* const existingByHash = new Set(existingFiles.map(f => f.hash))
existingByHash(existingFiles) ==
    {existingFiles[n].hash : n \in 1..Len(existingFiles)}

\* the script up to the transaction: the rows of the table and the scan of
\* the image directory
ImportStart ==
    /\ impPc = "start"
    /\ impExisting' = existingByHash(impTable)
    /\ impQueue' = allImages(impCase.disk)
    /\ impCounts' = NoCounts
    /\ impPc' = "loop"
    /\ UNCHANGED <<impCase, impTable, impUploads, impRun, impLog, notImport>>

\* existingByHash.has(uniqueHash) || existingByHash.has(oldHash): skipped++
skipsImage(existing, img) == uniqueHash(img) \in existing \/ oldHash(img) \in existing

\* the body of the loop of importAll for one image
ImportImage ==
    /\ impPc = "loop"
    /\ impQueue # <<>>
    /\ IF skipsImage(impExisting, Head(impQueue))
       THEN /\ impCounts' = [impCounts EXCEPT !.skipped = @ + 1]
            /\ UNCHANGED <<impTable, impUploads>>
       ELSE /\ impUploads' = impUploads \cup {insertedRow(Head(impQueue)).url}
            /\ impTable' = Append(impTable, insertedRow(Head(impQueue)))
            /\ impCounts' = [impCounts EXCEPT !.inserted = @ + 1]
    /\ impQueue' = Tail(impQueue)
    /\ UNCHANGED <<impCase, impExisting, impPc, impRun, impLog, notImport>>

\* the loop is over: the transaction is committed, the counts are printed
ImportDone ==
    /\ impPc = "loop"
    /\ impQueue = <<>>
    /\ impLog' = Append(impLog, impCounts.inserted)
    /\ impPc' = "done"
    /\ UNCHANGED <<impCase, impTable, impUploads, impExisting, impQueue, impRun,
                   impCounts, notImport>>

\* the script is run again over the same image directory
ImportAgain ==
    /\ impPc = "done"
    /\ impRun < MaxImportRuns
    /\ impRun' = impRun + 1
    /\ impPc' = "start"
    /\ UNCHANGED <<impCase, impTable, impUploads, impExisting, impQueue, impCounts,
                   impLog, notImport>>

NextImport == ImportStart \/ ImportImage \/ ImportDone \/ ImportAgain

SpecImport == InitImport /\ [][NextImport]_vars

\* the file name without its extension
BaseName(fileName) == SubSeq(fileName, 1, Len(fileName) - Len(".webp"))

\* the hash with the category in front, and the one without
PrefixedHash(img) ==
    img.system \o "_" \o BaseName(img.fileName) \o "_" \o SubSeq(md5(img.content), 1, 10)
UnprefixedHash(img) == BaseName(img.fileName) \o "_" \o SubSeq(md5(img.content), 1, 10)

\* the hashes of the table before the first run
HashesBefore ==
    {TableOfCase(impCase, 1)[n].hash : n \in 1..Len(TableOfCase(impCase, 1))}

\* the image was in the table before the first run, under one of its hashes
WasImported(img) == PrefixedHash(img) \in HashesBefore \/ UnprefixedHash(img) \in HashesBefore

\* the images the first run has to insert
ToInsert == SelectSeq(allImages(impCase.disk), LAMBDA img : ~WasImported(img))

LegacyRowSkipped ==
    /\ impPc = "done"
    /\ impRun = 1
    /\ impLog = <<0>>
    /\ Len(impTable) = 1
    /\ impTable[1].folder_path = "/"

====
